---- MODULE Spec2Model ----
(***************************************************************************)
(* SimplyPrint cloud session of OctoPrint-SimplyPrint.                     *)
(*                                                                         *)
(* Part I   SimplyPrintWebsocket: the connection loop (_connect,           *)
(*          _read_messages), the message handlers (_process_message,       *)
(*          _process_demand), send_sp with its keepalive deadline, and     *)
(*          shutdown (_do_close / close).                                  *)
(* Part II  FlexTimer: start / stop / _schedule_task / _call_wrapper.      *)
(*                                                                         *)
(* Source: src/octoprint_simplyprint/websocket/simplyprint.py              *)
(***************************************************************************)
EXTENDS Naturals, Integers, Sequences, FiniteSets, TLC

VARIABLES
    \* ---- SimplyPrintWebsocket fields --------------------------------
    connected,          \* self.connected
    ws,                 \* self.ws: "None" or "Open" (a WebSocketClientConnection)
    ws_protocol,        \* self.ws.protocol: "live" or "None" (cleared by ws.close())
    is_set_up,          \* self.is_set_up
    is_closing,         \* self.is_closing
    reconnect_token,    \* self.reconnect_token: "None" or "tok"
    reconnect_delay,    \* self.reconnect_delay (seconds)
    keepalive_hdl,      \* self.keepalive_hdl: NoHandle or a TimerHandle id
    \* ---- the event loop and the transport ---------------------------
    pc,                 \* position of the _initialize/_connect coroutine
    close_pc,           \* position of the _do_close coroutine
    ka_scheduled,       \* TimerHandles of _do_keepalive pending in the loop
    sock,               \* transport: "none", "open", "closed" (close signal queued)
    inq,                \* frames waiting unread in the connection's read queue
    \* ---- what the session reports --------------------------------
    cache,              \* self.cache (ReportCache), self.is_connected (the printer
                        \*   is) and what the helpers answer
    missed_job_events,  \* self.missed_job_events
    now,                \* self._monotonic(), in half seconds
    pause_calls,        \* calls of printer.pause_print made by the last handler
    settings,           \* self.settings: the persisted printer_id, printer_name
                        \*   and temp_short_setup_id (followed in Part XI)
    timers,             \* the session's FlexTimers, AmbientDetect and WebcamStream:
                        \*   [running: those that run, job_task: the job-info
                        \*    callback is "idle" or "awaiting" the printer's data,
                        \*    followed: the model follows them (Part VII)]
    \* ---- observations -----------------------------------------------
    outbox,             \* the send_sp calls of the last handler: [evt, data, wrote]
                        \*   (recorded where the reports are followed)
    attempt,            \* the connect attempt in progress / last made:
                        \*   [token: url carried a token suffix, slept: sleep before it]
    last_send,          \* last call of send_sp: [evt, wrote]
    hist,               \* history of the last connect attempt:
                        \*   [opened: it opened a socket, acked: a "connected" packet
                        \*    was processed on that socket, error: an "error" packet
                        \*    was, err_last: and no "connected" packet after it]
    \* ---- FlexTimer (Part II) ----------------------------------------
    running,            \* FlexTimer.running
    timer_handle,       \* FlexTimer.timer_handle: NoHandle or a handle id
    wakes,              \* handles of _schedule_task pending in the loop
    tasks,              \* _call_wrapper tasks: id -> "created" | "awaiting"
    stopped_since,      \* history: stop() ran and no start() after it
    \* ---- the samplers and the file handler (Parts IV to VI) ---------
    metric,             \* one sampled metric group: its cache, the last sample and
                        \*   the payload the last sample made the handler send
    amb,                \* AmbientDetect
    xfer,               \* SimplyPrintFileHandler and the download it runs
    \* ---- the host's events around _initialize (Part IX) -----------
    host,               \* the host's event thread, cached_events, the loop's
                        \*   callback queue and the printer behind the host
    \* ---- the remote's view, the timers of the snapshots, the stream,
    \* ---- the system calls and the polling loop (Parts XII on) -----
    remote,             \* what the remote has been sent of the cache
    ai,                 \* the AI snapshot timer, its intervals and the clock
    link,               \* the printer link, the connects asked of it and the clock
    work,               \* the printer calls in progress: on the loop, in the workers
    cam,                \* WebcamStream: running, interval and its _stream coroutines
    sys_manager,        \* SystemManager: the plugin job in the executor and the restarts issued
    comm                \* SimplyPrintComm.main_loop: requests_failed, times_per_minute, the last sleep

reportVars == <<cache, missed_job_events, now, pause_calls, timers, settings,
                outbox>>
sessVars == <<connected, ws, ws_protocol, is_set_up, is_closing, reconnect_token,
              reconnect_delay, keepalive_hdl, pc, close_pc, ka_scheduled, sock,
              inq, attempt, last_send, hist, reportVars>>
timerVars == <<running, timer_handle, wakes, tasks, stopped_since>>
extVars == <<remote, ai, link, work, cam, sys_manager, comm>>
partVars == <<metric, amb, xfer, host, extVars>>
vars == <<sessVars, timerVars, partVars>>

---------------------------------------------------------------------------
(* Bounds of the model *)
MaxInq == 1         \* unread frames the read queue may hold
MaxHandles == 2     \* keepalive handles the loop may hold at once
MaxWakes == 3       \* FlexTimer wake-ups the loop may hold at once
MaxTasks == 2       \* FlexTimer callback tasks alive at once
MaxTime == 2        \* the clock stops after this many half seconds

(* Program constants *)
KEEPALIVE_TIME == 96
DelayMin == 1
DelayError == 30
MaxMissed == 10

None == "None"

\* Lifecycle states reported to the remote (self.cache.state).
States ==
    {"offline", "operational", "printing", "pausing", "paused", "resuming",
     "cancelling", "error"}

\* What the printer is doing when the plugin starts.
PrinterAtStart == {"offline", "operational", "printing"}

\* The cached state where the reports are not followed (Parts I and II): what
\* a comparison with it answers is then an input of the handler (env).
Unknown == "unknown"
NoHandle == 0

PRE_SETUP_EVENTS ==
    {"connection", "state_change", "shutdown", "machine_data", "keepalive",
     "firmware"}

\* Event types handed to send_sp by the call sites this part models.
GatedEvents ==
    {"temps", "job_info", "webcam", "ambient", "installed_plugins",
     "webcam_status", "power_controller", "filament_sensor", "gcode_scripts"}
EventTypes == PRE_SETUP_EVENTS \cup GatedEvents

---------------------------------------------------------------------------
(* Part I: SimplyPrintWebsocket                                            *)

\* Inbound text frames, by what _process_message makes of them.
\*   shape    "notjson": json.loads raises; "nonobject": a JSON value that is
\*            no object; "object": a JSON object
\*   type     packet.get("type", "")
\*   data     packet.get("data"): "None", "nonmap" (no mapping) or "map"
\*   in_setup, token, interval   fields of a "connected" / "interval_change"
\*            / "new_token" payload
\*   demand, args   a demand's name and the shape of its arguments
\*   env      what the collaborators make the demand's handler send (Envs)
Frame(type, data) ==
    [shape |-> "object", type |-> type, data |-> data, in_setup |-> 0,
     token |-> FALSE, no_exist |-> FALSE, interval |-> "None",
     demand |-> "", args |-> "absent", env |-> "quiet",
     name |-> FALSE, short_id |-> FALSE, printer_id |-> FALSE]

DataShapes == {"None", "nonmap", "map"}

Demands ==
    {"pause", "resume", "cancel", "terminal", "gcode", "test_webcam",
     "stream_on", "stream_off", "file", "start_print", "connect_printer",
     "disconnect_printer", "system_restart", "system_shutdown", "api_restart",
     "api_shutdown", "update", "plugin_install", "plugin_uninstall",
     "printer_settings", "webcam_settings_updated", "set_printer_profile",
     "get_gcode_script_backups", "has_gcode_changes", "psu_on",
     "psu_keepalive", "psu_off", "disable_websocket", "unknown"}

\* Shapes of a demand's args mapping:
\*   "ok"        every argument present and well typed
\*   "absent"    the mapping holds no argument of the demand
\*   "partial"   the argument is a mapping that lacks a key the handler indexes
\*   "illtyped"  the argument is present with a value of the wrong type
ArgShapes == {"ok", "absent", "partial", "illtyped"}

\* The demands whose handler reads its args; the others ignore them.
ArgDemands ==
    {"terminal", "gcode", "stream_on", "file", "plugin_install",
     "plugin_uninstall", "printer_settings", "webcam_settings_updated",
     "set_printer_profile", "get_gcode_script_backups", "has_gcode_changes"}

\* What the collaborators make a demand handler send before it returns:
\*   "quiet"      nothing (the cached state is the new state, no helper answers)
\*   "send"       the handler's own send (state_change; power and filament
\*                sensor state; gcode_scripts)
\*   "cancelled"  the cached state was "cancelling": _update_state first reports
\*                the "cancelled" job event
\* Where the cached state is followed, it decides and env is not consulted.
Envs == {"quiet", "send", "cancelled"}

\* The demands whose sends depend on the collaborators.
EnvDemands ==
    {"pause", "resume", "cancel", "printer_settings", "get_gcode_script_backups"}

MalformedFrames ==
    {[Frame("", "None") EXCEPT !.shape = "notjson"],
     [Frame("", "None") EXCEPT !.shape = "nonobject"],
     Frame("", "None"), Frame("bogus", "None"), Frame("bogus", "map"),
     Frame("bogus", "nonmap")}

ConnectedFrames ==
    {Frame("connected", "None"), Frame("connected", "nonmap")}
    \cup {[Frame("connected", "map") EXCEPT !.in_setup = i, !.token = t,
                                            !.interval = v] :
            i \in {0, 1}, t \in BOOLEAN, v \in {"None", "ok", "bad"}}

OtherFrames ==
    {Frame("error", d) : d \in DataShapes}
    \cup {Frame("new_token", "None"), Frame("new_token", "nonmap")}
    \cup {[Frame("new_token", "map") EXCEPT !.no_exist = n, !.token = t] :
            n \in BOOLEAN, t \in BOOLEAN}
    \cup {Frame("complete_setup", d) : d \in DataShapes}
    \cup {Frame("interval_change", "None"), Frame("interval_change", "nonmap")}
    \cup {[Frame("interval_change", "map") EXCEPT !.interval = v] :
            v \in {"ok", "bad"}}

DemandFrames ==
    {Frame("demand", "None"), Frame("demand", "nonmap")}
    \cup UNION {
            {[Frame("demand", "map") EXCEPT !.demand = d, !.args = a, !.env = e] :
                a \in {x \in ArgShapes : d \in ArgDemands \/ x = "absent"},
                e \in {x \in Envs : d \in EnvDemands \/ x = "quiet"}} :
            d \in Demands}

Frames == MalformedFrames \cup ConnectedFrames \cup OtherFrames \cup DemandFrames

\* The fields a handler running on the loop reads and writes, as one record;
\* raised: an exception left the handler.
Cur ==
    [connected |-> connected, ws |-> ws, ws_protocol |-> ws_protocol,
     sock |-> sock, is_set_up |-> is_set_up,
     reconnect_token |-> reconnect_token, reconnect_delay |-> reconnect_delay,
     keepalive_hdl |-> keepalive_hdl, ka_scheduled |-> ka_scheduled,
     last_send |-> last_send, hist |-> hist, raised |-> FALSE,
     cache |-> cache, missed_job_events |-> missed_job_events, now |-> now,
     pause_calls |-> 0, timers |-> timers, settings |-> settings, sent |-> <<>>]

Commit(s) ==
    /\ connected' = s.connected
    /\ is_set_up' = s.is_set_up
    /\ reconnect_token' = s.reconnect_token
    /\ reconnect_delay' = s.reconnect_delay
    /\ keepalive_hdl' = s.keepalive_hdl
    /\ ka_scheduled' = s.ka_scheduled
    /\ last_send' = s.last_send
    /\ hist' = s.hist
    /\ cache' = s.cache
    /\ missed_job_events' = s.missed_job_events
    /\ pause_calls' = IF s.cache.state = Unknown THEN 0 ELSE s.pause_calls
    /\ timers' = s.timers
    /\ settings' = s.settings
    /\ outbox' = IF s.cache.state = Unknown THEN <<>> ELSE s.sent
    /\ UNCHANGED now

\* loop.call_later hands out a new TimerHandle.
FreshHandle(sched) ==
    LET used == {k.h : k \in sched}
        free == (1..MaxHandles) \ used
    IN IF free = {} THEN MaxHandles
       ELSE CHOOSE h \in free : \A g \in free : h <= g

cancel_keepalive(s) ==
    IF s.keepalive_hdl # NoHandle
    THEN [s EXCEPT !.ka_scheduled = {k \in @ : k.h # s.keepalive_hdl},
                   !.keepalive_hdl = NoHandle]
    ELSE s

reset_keepalive(s) ==
    LET c == cancel_keepalive(s)
        h == FreshHandle(c.ka_scheduled)
    IN [c EXCEPT !.keepalive_hdl = h,
                 !.ka_scheduled = @ \cup {[h |-> h, after |-> KEEPALIVE_TIME]}]

\* Faulty variant: the gate written with "and".
check_setup_event_and(s, evt_name) == s.is_set_up /\ evt_name \in PRE_SETUP_EVENTS

check_setup_event(s, evt_name) == s.is_set_up \/ evt_name \in PRE_SETUP_EVENTS

\* The payload of a send whose content the model does not follow.
NoData == [none |-> TRUE]

\* The outcome of one call of send_sp, as the handler leaves it.
sp_result(s, evt_name, data, wrote) ==
    [s EXCEPT !.last_send = [evt |-> evt_name, wrote |-> wrote],
              !.sent = Append(@, [evt |-> evt_name, data |-> data, wrote |-> wrote])]

not_sent(s, evt_name, data) == sp_result(s, evt_name, data, FALSE)

\* send_sp(evt_name, data)
send_data(s, evt_name, data) ==
    IF \/ ~s.connected
       \/ s.ws = None
       \/ s.ws_protocol = None
       \/ ~check_setup_event(s, evt_name)
    THEN not_sent(s, evt_name, data)
    ELSE IF s.sock # "open"
         THEN not_sent(s, evt_name, data)   \* write_message: WebSocketClosedError
         ELSE sp_result(reset_keepalive(s), evt_name, data, TRUE)

\* send_sp with a payload the model does not follow.
send_sp(s, evt_name) == send_data(s, evt_name, NoData)

RECURSIVE send_each(_, _)
send_each(s, evts) ==
    IF evts = <<>> THEN s
    ELSE send_each(send_sp(s, Head(evts)), Tail(evts))

\* Faulty variant: the send is made whatever the cache holds.
send_always(s, cond, evt_name) == send_sp(s, evt_name)

\* `if <cached value>: self.send_sp(...)`
send_if(s, cond, evt_name) == IF cond THEN send_sp(s, evt_name) ELSE s

\* The settings where they are left out (`followed` false): the writes of
\* the handlers are not recorded.
SettingsAside ==
    [followed |-> FALSE, printer_id |-> "", printer_name |-> "",
     temp_short_setup_id |-> ""]

\* self.settings.set([key], value), saved by the handler
settings_set(s, key, value) ==
    IF ~s.settings.followed THEN s ELSE [s EXCEPT !.settings[key] = value]

\* No event has come (__init__: cached_events = [], no _loop yet).  `old` is
\* the list made by __init__, `new` the one made by _initialize; `current`
\* says which of them self.cached_events is; `printer` is what the printer is
\* doing (Part X).
NoEvents ==
    [printer |-> "offline",
     pc |-> "idle", via |-> "none", ref |-> "old", ev |-> 0, arrived |-> 0,
     has_loop |-> FALSE, init_pc |-> "start", idx |-> 0,
     old |-> <<>>, new |-> <<>>, current |-> "old",
     loopq |-> <<>>, processed |-> <<>>]

\* No timer runs (__init__); where `followed` is false the starts and stops
\* of the timers are left out.
TimersAside == [followed |-> FALSE, running |-> {}, job_task |-> "idle"]

\* FlexTimer.start / AmbientDetect.start / WebcamStream.start of the named
\* ones (where the timers are followed)
timers_start(s, names) ==
    IF ~s.timers.followed THEN s ELSE [s EXCEPT !.timers.running = @ \cup names]

\* FlexTimer.stop / AmbientDetect.stop / WebcamStream.stop of the named ones
timers_stop(s, names) ==
    IF ~s.timers.followed THEN s ELSE [s EXCEPT !.timers.running = @ \ names]

\* _start_printer_reconnect: self.intervals["reconnect"] is set and the
\* printer is not operational
start_printer_reconnect(s) ==
    IF ~s.cache.reconnect \/ s.cache.is_connected THEN s
    ELSE timers_start(s, {"printer_reconnect"})

\* Faulty variant: the newest event is dropped when the buffer is full.
send_job_event_keeps_oldest(s, kind) ==
    IF s.connected
    THEN send_data(s, "job_info", [job |-> kind])
    ELSE LET q == Append(s.missed_job_events, [job |-> kind, delay |-> s.now])
         IN [s EXCEPT !.missed_job_events =
                          IF Len(q) > MaxMissed THEN SubSeq(q, 1, MaxMissed) ELSE q]

\* _send_job_event (the buffer is followed where the cache is)
send_job_event(s, kind) ==
    IF s.connected
    THEN send_data(s, "job_info", [job |-> kind])
    ELSE IF s.cache.state = Unknown THEN s
    ELSE LET q == Append(s.missed_job_events, [job |-> kind, delay |-> s.now])
         IN [s EXCEPT !.missed_job_events =
                          IF Len(q) > MaxMissed THEN Tail(q) ELSE q]

\* _on_print_done
on_print_done(s, job_state) ==
    [send_job_event(timers_stop(s, {"job_info", "ai"}), job_state)
        EXCEPT !.cache.job_info = FALSE]

\* _update_state leaving "cancelling": the job event takes the stored
\* firmware error, which is cleared; cache.job_error keeps what the last
\* "cancelled" job event carried.
print_cancelled(s) ==
    [on_print_done(s, "cancelled") EXCEPT !.cache.firmware_error = "",
                                          !.cache.job_error = s.cache.firmware_error]

\* `self.cache.state` as _update_state reads it
CachedState(s, new_state, env) ==
    IF s.cache.state # Unknown THEN s.cache.state
    ELSE CASE env = "quiet" -> new_state
           [] env = "cancelled" -> "cancelling"
           [] OTHER -> Unknown

\* Faulty variant: the state is reported even if it is the cached one.
update_state_always(s, new_state, env) ==
    LET a == IF CachedState(s, new_state, env) = "cancelling"
             THEN print_cancelled(s) ELSE s
    IN send_data([a EXCEPT !.cache.state =
                               IF @ = Unknown THEN @ ELSE new_state],
                 "state_change", [new |-> new_state])

\* _update_state
update_state(s, new_state, env) ==
    LET cur == CachedState(s, new_state, env)
    IN IF cur = new_state THEN s
       ELSE LET a == IF cur = "cancelling"
                     THEN print_cancelled(s) ELSE s
            IN send_data([a EXCEPT !.cache.state =
                                       IF @ = Unknown THEN @ ELSE new_state],
                         "state_change", [new |-> new_state])

\* _on_cancelling_event
on_cancelling_event(s, msg) ==
    update_state([s EXCEPT !.cache.firmware_error = msg], "cancelling", "send")

\* `evt["delay"] = int((curtime - evt["delay"]) + .5)`, the clock in half
\* seconds, the result in seconds.
ElapsedSeconds(curtime, queued) == ((curtime - queued) + 1) \div 2

\* `for evt in self.missed_job_events: ... self.send_sp("job_info", evt)`
RECURSIVE send_missed(_, _)
send_missed(s, evts) ==
    IF evts = <<>> THEN s
    ELSE send_missed(
            send_data(s, "job_info",
                      [job |-> Head(evts).job,
                       delay |-> ElapsedSeconds(s.now, Head(evts).delay)]),
            Tail(evts))

\* _push_initial_state
push_initial_state(s) ==
    LET c == s.cache
        s1 == send_data(s, "state_change", [new |-> c.state])
        s2 == send_if(s1, c.temps, "temps")
        s3 == send_if(s2, c.firmware_info, "firmware")
        s4 == send_if(s3, c.machine_data, "machine_data")
        s5 == send_sp(s4, "webcam")
        s6 == [send_missed(s5, s5.missed_job_events)
                  EXCEPT !.missed_job_events = <<>>]
        s7 == send_if(s6, c.active_extruder # "", "tool")
        s8 == send_if(s7, c.cpu_info, "cpu_info")
        s9 == send_sp(s8, "ambient")
        s10 == send_if(s9, c.power_state, "power_controller")
        s11 == send_if(s10, c.filament_sensor_state, "filament_sensor")
        s12 == send_sp(s11, "installed_plugins")
        s13 == send_if(s12, c.updates, "software_updates")
    IN send_sp(s13, "webcam_status")

\* _send_active_extruder
send_active_extruder(s, tool) ==
    IF tool = s.cache.active_extruder THEN s
    ELSE send_data([s EXCEPT !.cache.active_extruder = tool], "tool",
                   [new |-> tool])

\* _on_state_event
on_state_event(s, new_state) ==
    IF ~s.cache.is_connected THEN s ELSE update_state(s, new_state, "send")

\* _on_printer_connected (st: the printer is "printing" or "operational")
on_printer_connected(s, st) ==
    LET s1 == send_data([s EXCEPT !.cache.is_connected = TRUE], "connection",
                        [new |-> "connected"])
        s2 == IF st = "printing" THEN timers_start(s1, {"job_info"}) ELSE s1
        s3 == update_state(s2, st, "send")
        s4 == IF st = "operational" /\ s.cache.display_show_status
              THEN timers_start(s3, {"display_reset"}) ELSE s3
        s5 == timers_stop(timers_start(s4, {"temp", "amb_detect"}),
                          {"printer_reconnect"})
    IN send_active_extruder(s5, "T0")

\* _on_printer_disconnected, with ReportCache.reset_print_state
on_printer_disconnected(s) ==
    LET s1 == update_state([s EXCEPT !.cache.is_connected = FALSE], "offline",
                           "send")
        s2 == send_data(s1, "connection", [new |-> "disconnected"])
        s3 == timers_stop(s2, {"temp", "job_info", "webcam_stream", "ai",
                               "display_reset"})
    IN start_printer_reconnect(
            [s3 EXCEPT !.cache.temps = FALSE, !.cache.job_info = FALSE])

\* _on_print_start (no downloaded file is pending)
on_print_start(s) ==
    LET s1 == update_state(s, "printing", "send")
        s2 == timers_start([s1 EXCEPT !.cache.job_info = TRUE], {"job_info"})
    IN timers_start(send_job_event(s2, "started"), {"ai"})

\* _on_print_paused
on_print_paused(s) ==
    update_state(send_data(timers_stop(s, {"job_info", "ai"}), "job_info",
                           [job |-> "paused"]),
                 "paused", "send")

\* _on_print_resumed
on_print_resumed(s) ==
    update_state(timers_start(s, {"job_info", "ai"}), "printing", "send")

\* _send_firmware_data
send_firmware_data(s) ==
    send_sp([s EXCEPT !.cache.firmware_info = TRUE], "firmware")

Raise(s) == [s EXCEPT !.raised = TRUE]

\* _process_demand / _sync_settings_from_simplyprint / _sync_webcam_settings /
\* _save_gcode_scripts: whether the handler raises on the loop.
DemandRaises(demand, args) ==
    \/ demand = "stream_on" /\ args = "illtyped"            \* interval / 1000
    \/ demand = "printer_settings" /\ args \in {"partial", "illtyped"}
                                                  \* sp_settings["updated_datetime"]
    \/ demand = "webcam_settings_updated" /\ args = "illtyped"  \* cam_settings.get
    \/ demand = "has_gcode_changes" /\ args = "illtyped"    \* fix_script: data.replace

DemandSends(demand, args, env) ==
    CASE demand = "printer_settings" /\ args \in {"ok", "partial"} ->
            IF env = "quiet" THEN <<>>
            ELSE <<"power_controller", "filament_sensor">>
      [] demand = "get_gcode_script_backups" ->
            IF env = "quiet" THEN <<>> ELSE <<"gcode_scripts">>
      [] demand = "has_gcode_changes" /\ args = "ok" -> <<"gcode_scripts">>
      [] OTHER -> <<>>

process_demand(s, demand, args, env) ==
    CASE demand = "pause" ->
            [update_state(s, "pausing", env) EXCEPT !.pause_calls = @ + 1]
      [] demand = "resume" -> update_state(s, "resuming", env)
      [] demand = "cancel" -> update_state(s, "cancelling", env)
      [] demand = "stream_on" /\ args # "illtyped" ->
            timers_start(s, {"webcam_stream"})
      [] demand = "stream_off" -> timers_stop(s, {"webcam_stream"})
      [] OTHER ->
            LET sent == send_each(s, DemandSends(demand, args, env))
            IN IF DemandRaises(demand, args) THEN Raise(sent) ELSE sent

\* _set_intervals raises on a value that is no number (val / 1000.).
set_intervals(s, interval) ==
    IF interval = "bad" THEN Raise(s)
    ELSE IF interval = "ok" THEN start_printer_reconnect(s)
    ELSE s

\* the `in_setup` branch of the "connected" handler: the settings it writes
in_setup(s, f) ==
    LET a == settings_set(settings_set(s, "printer_id", ""), "printer_name", "")
    IN IF f.short_id THEN settings_set(a, "temp_short_setup_id", "sid") ELSE a

on_connected_with(s, f, delay) ==
    LET a == [s EXCEPT !.connected = TRUE, !.reconnect_token = None,
                       !.hist.acked = TRUE, !.hist.err_last = FALSE]
    IN IF f.data = "None"
       THEN push_initial_state([a EXCEPT !.reconnect_delay = delay])
       ELSE IF f.data = "nonmap" THEN Raise(a)             \* data.get
       ELSE LET b == IF f.in_setup = 1 THEN in_setup([a EXCEPT !.is_set_up = FALSE], f)
                     ELSE a
                c == set_intervals(b, f.interval)
                d == IF f.name THEN settings_set(c, "printer_name", "name1") ELSE c
            IN IF c.raised THEN c
               ELSE push_initial_state(
                        [d EXCEPT !.reconnect_token = IF f.token THEN "tok" ELSE None,
                                  !.reconnect_delay = delay])

\* Faulty variant: the "connected" handler leaves reconnect_delay as it is.
on_connected_keeps_delay(s, f) == on_connected_with(s, f, s.reconnect_delay)

on_connected(s, f) == on_connected_with(s, f, DelayMin)

\* Faulty variant: the "error" handler keeps the reconnect token.
on_error_keeps_token(s) ==
    [s EXCEPT !.reconnect_delay = DelayError,
              !.hist.error = TRUE, !.hist.err_last = TRUE]

on_error(s) ==
    [s EXCEPT !.reconnect_delay = DelayError, !.reconnect_token = None,
              !.hist.error = TRUE, !.hist.err_last = TRUE]

on_new_token(s, f) ==
    IF f.data = "None" THEN s
    ELSE IF f.data = "nonmap" THEN Raise(s)                \* data.get
    ELSE LET a == IF f.no_exist /\ s.is_set_up THEN [s EXCEPT !.is_set_up = FALSE]
                  ELSE s
         IN IF f.token /\ f.short_id
            THEN settings_set(a, "temp_short_setup_id", "sid") ELSE a

\* the "complete_setup" handler with data: str(data.get("printer_id")) is
\* persisted
complete_setup(s, f) ==
    settings_set(settings_set([s EXCEPT !.is_set_up = TRUE], "printer_id",
                              IF f.printer_id THEN "id1" ELSE "None"),
                 "temp_short_setup_id", "")

on_complete_setup(s, f) ==
    IF f.data = "None" THEN s
    ELSE IF f.data = "nonmap" THEN Raise(s)                \* data.get
    ELSE complete_setup(s, f)

on_demand(s, f) ==
    IF f.data = "None" THEN s
    ELSE IF f.data = "nonmap" THEN Raise(s)                \* data.pop
    ELSE process_demand(s, f.demand, f.args, f.env)

process_message(s0, f) ==
    LET s == reset_keepalive(s0)
    IN IF f.shape = "notjson" THEN s                       \* JSONDecodeError caught
       ELSE IF f.shape = "nonobject" THEN Raise(s)         \* packet.get
       ELSE CASE f.type = "connected" -> on_connected(s, f)
              [] f.type = "error" -> on_error(s)
              [] f.type = "new_token" -> on_new_token(s, f)
              [] f.type = "complete_setup" -> on_complete_setup(s, f)
              [] f.type = "demand" -> on_demand(s, f)
              [] f.type = "interval_change" ->
                    IF f.data = "map" THEN set_intervals(s, f.interval) ELSE s
              [] OTHER -> s                                \* unknown event

\* do_keepalive: the deadline fired.
do_keepalive(s) == send_sp([s EXCEPT !.keepalive_hdl = NoHandle], "keepalive")

---------------------------------------------------------------------------
(* The connection loop *)

LoopAlive == pc \notin {"crashed", "exited"}

NoHist == [opened |-> FALSE, acked |-> FALSE, error |-> FALSE, err_last |-> FALSE]

\* `while not self.is_closing:` and the url of the attempt it starts.
LoopHead ==
    IF is_closing
    THEN pc' = "exited" /\ UNCHANGED attempt
    ELSE /\ pc' = "connecting"
         /\ attempt' = [attempt EXCEPT !.token = (reconnect_token # None)]

\* `if not self.is_closing: await asyncio.sleep(self.reconnect_delay)`, and the
\* loop test that follows when it is closing.
AfterAttempt ==
    IF is_closing
    THEN pc' = "exited" /\ UNCHANGED attempt
    ELSE /\ pc' = "sleeping"
         /\ attempt' = [attempt EXCEPT !.slept = reconnect_delay]

TimerIdle ==
    UNCHANGED <<timerVars, partVars>>

ReportIdle ==
    UNCHANGED reportVars

\* _initialize: the printer is operational or not (_on_printer_connected /
\* _update_state_from_octo, whose upper-case state id is in no case one of
\* VALID_STATES), the machine data is read, and `await self._connect()` is
\* reached.
Initialize(st) ==
    /\ pc = "init"
    /\ LoopHead
    /\ LET s0 == timers_start(Cur, {"update", "cpu"})
           s == IF st = "offline" THEN s0 ELSE on_printer_connected(s0, st)
       IN /\ timers' = s.timers
          /\ cache' = [(IF cache.state = Unknown THEN cache ELSE s.cache)
                            EXCEPT !.machine_data = TRUE]
          /\ outbox' = IF s.cache.state = Unknown THEN <<>> ELSE s.sent
          /\ last_send' = s.last_send
          /\ missed_job_events' = s.missed_job_events
    /\ UNCHANGED <<connected, ws, ws_protocol, is_set_up, is_closing,
                   reconnect_token, reconnect_delay, keepalive_hdl, close_pc,
                   ka_scheduled, sock, inq, hist, now, pause_calls, settings>>
    /\ TimerIdle

\* server_reachable is false, or websocket_connect raises.
ConnectFail ==
    /\ pc = "connecting"
    /\ hist' = NoHist
    /\ AfterAttempt
    /\ UNCHANGED <<connected, ws, ws_protocol, is_set_up, is_closing,
                   reconnect_token, reconnect_delay, keepalive_hdl, close_pc,
                   ka_scheduled, sock, inq, last_send>>
    /\ ReportIdle
    /\ TimerIdle

\* websocket_connect returns a connection; _read_messages starts.
ConnectOk ==
    /\ pc = "connecting"
    /\ ws' = "Open"
    /\ ws_protocol' = "live"
    /\ sock' = "open"
    /\ inq' = 0
    /\ hist' = [NoHist EXCEPT !.opened = TRUE]
    /\ pc' = "reading"
    /\ timers' = start_printer_reconnect(Cur).timers
    /\ UNCHANGED <<connected, is_set_up, is_closing, reconnect_token,
                   reconnect_delay, keepalive_hdl, close_pc, ka_scheduled,
                   attempt, last_send>>
    /\ UNCHANGED <<cache, missed_job_events, now, pause_calls, settings, outbox>>
    /\ TimerIdle

\* read_message returns a text frame.
ReadMessage(f) ==
    /\ pc = "reading"
    /\ inq > 0
    /\ inq' = inq - 1
    /\ LET s == process_message(Cur, f)
       IN /\ Commit(s)
          /\ pc' = IF s.raised THEN "crashed" ELSE "reading"
    /\ UNCHANGED <<ws, ws_protocol, is_closing, close_pc, sock, attempt>>
    /\ TimerIdle

\* read_message returns None: the socket is closed.
ReadCloseSetting(conn) ==
    /\ pc = "reading"
    /\ inq = 0
    /\ sock = "closed"
    /\ LET s == cancel_keepalive(timers_stop(Cur, {"webcam_stream"}))
       IN /\ keepalive_hdl' = s.keepalive_hdl
          /\ ka_scheduled' = s.ka_scheduled
          /\ timers' = s.timers
    /\ connected' = conn
    /\ ws' = None
    /\ ws_protocol' = None
    /\ sock' = "none"
    /\ AfterAttempt
    /\ UNCHANGED <<is_set_up, is_closing, reconnect_token, reconnect_delay,
                   close_pc, inq, last_send, hist>>
    /\ UNCHANGED <<cache, missed_job_events, now, pause_calls, settings, outbox>>
    /\ TimerIdle

\* Faulty variant: the close branch does not clear self.connected.
ReadClose_keeps_connected == ReadCloseSetting(connected)

ReadClose == ReadCloseSetting(FALSE)

\* asyncio.sleep(reconnect_delay) returns.
Wake ==
    /\ pc = "sleeping"
    /\ LoopHead
    /\ UNCHANGED <<connected, ws, ws_protocol, is_set_up, is_closing,
                   reconnect_token, reconnect_delay, keepalive_hdl, close_pc,
                   ka_scheduled, sock, inq, last_send, hist>>
    /\ ReportIdle
    /\ TimerIdle

\* The remote sends a text frame.
RemoteSend ==
    /\ sock = "open"
    /\ inq < MaxInq
    /\ inq' = inq + 1
    /\ UNCHANGED <<connected, ws, ws_protocol, is_set_up, is_closing,
                   reconnect_token, reconnect_delay, keepalive_hdl, pc, close_pc,
                   ka_scheduled, sock, attempt, last_send, hist>>
    /\ ReportIdle
    /\ TimerIdle

\* The remote closes the socket, or the network drops it.
RemoteClose ==
    /\ sock = "open"
    /\ sock' = "closed"
    /\ UNCHANGED <<connected, ws, ws_protocol, is_set_up, is_closing,
                   reconnect_token, reconnect_delay, keepalive_hdl, pc, close_pc,
                   ka_scheduled, inq, attempt, last_send, hist>>
    /\ ReportIdle
    /\ TimerIdle

\* After ws.close() the close handshake ends (the remote answers, or the
\* library aborts the stream after its own timeout).
CloseCompletes ==
    /\ sock = "open"
    /\ ws # None
    /\ ws_protocol = None
    /\ sock' = "closed"
    /\ UNCHANGED <<connected, ws, ws_protocol, is_set_up, is_closing,
                   reconnect_token, reconnect_delay, keepalive_hdl, pc, close_pc,
                   ka_scheduled, inq, attempt, last_send, hist>>
    /\ ReportIdle
    /\ TimerIdle

\* A timer callback or a local event callback on the loop calls send_sp.
CallbackSend(evt_name) ==
    /\ LoopAlive
    /\ Commit(send_sp(Cur, evt_name))
    /\ UNCHANGED <<ws, ws_protocol, is_closing, pc, close_pc, sock, inq, attempt>>
    /\ TimerIdle

\* The keepalive deadline k fires: _do_keepalive.
KeepaliveFire(k) ==
    /\ LoopAlive
    /\ k \in ka_scheduled
    /\ Commit(do_keepalive([Cur EXCEPT !.ka_scheduled = @ \ {k}]))
    /\ UNCHANGED <<ws, ws_protocol, is_closing, pc, close_pc, sock, inq, attempt>>
    /\ TimerIdle

\* The timers _do_close stops.
ClosedTimers ==
    {"amb_detect", "temp", "job_info", "cpu", "ai", "printer_reconnect", "update"}

\* _do_close from `self.is_closing = True` on.
CloseRest(s) ==
    /\ is_closing' = TRUE
    /\ ws_protocol' = IF ws # None THEN None ELSE ws_protocol   \* ws.close(1001)
    /\ Commit(cancel_keepalive(s))
    /\ close_pc' = "done"

\* close() puts _do_close on the loop: the timers stop and the shutdown notice
\* is sent; a notice that was written is awaited.
DoCloseStart ==
    /\ close_pc = "idle"
    /\ LoopAlive
    /\ LET s == send_sp(timers_stop(Cur, ClosedTimers), "shutdown")
       IN IF s.last_send.wrote
          THEN /\ Commit(s)
               /\ close_pc' = "sending"
               /\ UNCHANGED <<is_closing, ws_protocol>>
          ELSE CloseRest(s)
    /\ UNCHANGED <<ws, pc, sock, inq, attempt>>
    /\ TimerIdle

\* The write of the shutdown notice is done; _do_close goes on.
DoCloseFinish ==
    /\ close_pc = "sending"
    /\ LoopAlive
    /\ CloseRest(Cur)
    /\ UNCHANGED <<ws, pc, sock, inq, attempt>>
    /\ TimerIdle

SessInit ==
    /\ connected = FALSE
    /\ ws = None
    /\ ws_protocol = None
    /\ is_set_up \in BOOLEAN
    /\ is_closing = FALSE
    /\ reconnect_token = None
    /\ reconnect_delay = DelayMin
    /\ keepalive_hdl = NoHandle
    /\ pc = "init"
    /\ close_pc = "idle"
    /\ ka_scheduled = {}
    /\ sock = "none"
    /\ inq = 0
    /\ attempt = [token |-> FALSE, slept |-> 0]
    /\ last_send = [evt |-> "", wrote |-> FALSE]
    /\ hist = NoHist
    /\ missed_job_events = <<>>
    /\ now = 0
    /\ pause_calls = 0
    /\ outbox = <<>>

\* ReportCache.__init__ and `self.is_connected = False`: nothing is known
\* yet, the helpers have no answer.  Of temps, firmware_info, machine_data,
\* cpu_info, updates and job_info the model keeps whether they are non-empty.
ReportCache ==
    [state |-> "offline", temps |-> FALSE, firmware_info |-> FALSE,
     machine_data |-> FALSE, active_extruder |-> "", cpu_info |-> FALSE,
     updates |-> FALSE, job_info |-> FALSE, is_connected |-> FALSE,
     power_state |-> FALSE, filament_sensor_state |-> FALSE,
     display_show_status |-> FALSE, reconnect |-> FALSE,
     firmware_error |-> "", job_error |-> ""]

\* A dict with no key.
EmptyDict == <<>>

\* The samplers have sampled nothing, no file is in transfer.
\* The remote has been sent nothing, and the cache holds nothing of the
\* temperatures, the cpu stats and the active tool.
NoView == [tool |-> "", temps |-> TRUE, cpu |-> TRUE, completed |-> FALSE]

\* No time: None where a number of seconds is expected.
NoTime == -1

\* Loops of WebcamStream._stream the model follows at once.
MaxLoops == 2

\* One _stream coroutine: where it stands, and the interval of its sleep.
NoLoop == [at |-> "none", slept |-> NoTime]

\* WebcamStream.__init__; asked is the interval of the latest stream_on,
\* pushers the loops that sent an image since the latest start, stray an
\* image sent while the stream was stopped.
NoCam ==
    [running |-> FALSE, interval |-> 1, loops |-> [i \in 1..MaxLoops |-> NoLoop],
     asked |-> NoTime, pushers |-> {}, stray |-> FALSE]

\* No plugin job was handed to the executor; last is the job that ended
\* last: the pip calls it made, those that returned 0, and the restarts of
\* the host its done-callback issued.
NoJob ==
    [job |-> "none", args |-> <<>>, result |-> "none", calls |-> 0, zero |-> 0,
     jobs |-> 0,
     last |-> [job |-> "none", result |-> "none", calls |-> 0, zero |-> 0,
               restarts |-> 0]]

\* SimplyPrintComm.__init__: requests_failed = 0, times_per_minute = 45.
\* last is the outcome of the latest request; of the latest request that
\* returned, delay is the sleep that followed it and before the sleep after
\* the failure before it, in milliseconds; tiered: the sleep was the one of
\* the failure count.
NoRequests ==
    [requests_failed |-> 0, times_per_minute |-> 45, last |-> "none",
     delay |-> NoTime, before |-> NoTime, tiered |-> FALSE, request_time |-> 0]

\* No call of the printer interface is in progress.
NoWork == [on_loop |-> "none", workers |-> {}]

\* The printer link before a connect was asked of it.
NoLink ==
    [state |-> "CLOSED", clock |-> 0, rt |-> 0, last_connect |-> NoTime,
     gap |-> NoTime, from |-> "none", next_tick |-> NoTime]

\* The AI snapshot timer before the first print: intervals["ai"] is 60 s, no
\* handle is scheduled and ai_timer_not_before does not exist yet.
AiDefault == 60
NoAi ==
    [clock |-> 0, interval |-> AiDefault, not_before |-> NoTime,
     running |-> FALSE, timer_handle |-> NoTime, pending |-> {}, busy |-> FALSE,
     eventtime |-> NoTime, ai_interval |-> 0, failed_ai_attempts |-> 0]

PartsAtRest ==
    /\ metric = [group |-> "none", cache |-> EmptyDict, last_received |-> EmptyDict,
                 sample |-> EmptyDict, payload |-> EmptyDict]
    /\ amb = EmptyDict
    /\ xfer = EmptyDict

TimerInit ==
    /\ running = FALSE
    /\ timer_handle = NoHandle
    /\ wakes = {}
    /\ tasks = <<>>
    /\ stopped_since = FALSE

Init ==
    /\ SessInit
    /\ timers = TimersAside
    /\ TimerInit
    /\ host = NoEvents
    /\ comm = NoRequests
    /\ sys_manager = NoJob
    /\ cam = NoCam
    /\ work = NoWork
    /\ link = NoLink
    /\ ai = NoAi
    /\ remote = NoView
    /\ settings = SettingsAside
    /\ PartsAtRest
    /\ cache = [ReportCache EXCEPT !.state = Unknown]

Next ==
    \/ \E st \in PrinterAtStart : Initialize(st)
    \/ ConnectFail
    \/ ConnectOk
    \/ \E f \in Frames : ReadMessage(f)
    \/ ReadClose
    \/ Wake
    \/ RemoteSend
    \/ RemoteClose
    \/ CloseCompletes
    \/ \E evt_name \in EventTypes : CallbackSend(evt_name)
    \/ \E k \in ka_scheduled : KeepaliveFire(k)
    \/ DoCloseStart
    \/ DoCloseFinish

Spec == Init /\ [][Next]_vars

---------------------------------------------------------------------------
(* Part II: FlexTimer                                                      *)
(* One timer (job_info_timer, ai_timer, ...) on the session's loop.  Its   *)
(* callback returns the next wake time at once (_handle_temperature_update)*)
(* or after an await (_handle_job_info_update).                            *)

SessIdle ==
    UNCHANGED <<sessVars, partVars>>

\* loop.call_at hands out a new Handle.
FreshWake ==
    CHOOSE h \in (1..MaxWakes) \ wakes : \A g \in (1..MaxWakes) \ wakes : h <= g

RemoveAt(seq, i) ==
    [j \in 1..(Len(seq) - 1) |-> IF j < i THEN seq[j] ELSE seq[j + 1]]

\* The callbacks that have begun and not returned.
InFlight == {i \in DOMAIN tasks : tasks[i] = "awaiting"}

\* `self.timer_handle = self._aioloop.call_at(..., self._schedule_task)`
call_at ==
    /\ timer_handle' = FreshWake
    /\ wakes' = wakes \cup {FreshWake}

\* FlexTimer.start
start ==
    /\ ~running
    /\ Cardinality(wakes) < MaxWakes
    /\ running' = TRUE
    /\ call_at
    /\ stopped_since' = FALSE
    /\ UNCHANGED tasks
    /\ SessIdle

\* FlexTimer.stop
stop ==
    /\ running
    /\ running' = FALSE
    /\ wakes' = wakes \ {timer_handle}        \* timer_handle.cancel()
    /\ timer_handle' = NoHandle
    /\ stopped_since' = TRUE
    /\ UNCHANGED tasks
    /\ SessIdle

\* The wake h is due: FlexTimer._schedule_task
schedule_task(h) ==
    /\ h \in wakes
    /\ Len(tasks) < MaxTasks
    /\ wakes' = wakes \ {h}
    /\ timer_handle' = NoHandle
    /\ tasks' = Append(tasks, "created")
    /\ UNCHANGED <<running, stopped_since>>
    /\ SessIdle

\* _call_wrapper starts on a stopped timer and returns.
call_wrapper_skip(i) ==
    /\ tasks[i] = "created"
    /\ ~running
    /\ tasks' = RemoveAt(tasks, i)
    /\ UNCHANGED <<running, timer_handle, wakes, stopped_since>>
    /\ SessIdle

\* _call_wrapper calls a callback that returns the next wake time at once.
call_wrapper_sync(i) ==
    /\ tasks[i] = "created"
    /\ running
    /\ Cardinality(wakes) < MaxWakes
    /\ call_at
    /\ tasks' = RemoveAt(tasks, i)
    /\ UNCHANGED <<running, stopped_since>>
    /\ SessIdle

\* _call_wrapper calls a callback that returns an awaitable, and awaits it.
call_wrapper_await(i) ==
    /\ tasks[i] = "created"
    /\ running
    /\ tasks' = [tasks EXCEPT ![i] = "awaiting"]
    /\ UNCHANGED <<running, timer_handle, wakes, stopped_since>>
    /\ SessIdle

\* The awaited callback returns; _call_wrapper goes on from `if self.running:`.
call_wrapper_resume(i) ==
    /\ tasks[i] = "awaiting"
    /\ tasks' = RemoveAt(tasks, i)
    /\ IF running
       THEN Cardinality(wakes) < MaxWakes /\ call_at
       ELSE UNCHANGED <<timer_handle, wakes>>
    /\ UNCHANGED <<running, stopped_since>>
    /\ SessIdle

\* A callback begins.
callback_begins ==
    \E i \in DOMAIN tasks : call_wrapper_sync(i) \/ call_wrapper_await(i)

TimerNext ==
    \/ start
    \/ stop
    \/ \E h \in wakes : schedule_task(h)
    \/ \E i \in DOMAIN tasks : call_wrapper_skip(i)
    \/ \E i \in DOMAIN tasks : call_wrapper_sync(i)
    \/ \E i \in DOMAIN tasks : call_wrapper_await(i)
    \/ \E i \in DOMAIN tasks : call_wrapper_resume(i)

TimerSpec == Init /\ [][TimerNext]_vars

---------------------------------------------------------------------------
(* Claims about the session *)

\* C1: connected is true only if the handle ws is non-null and a "connected"
\* packet was received on that handle since it was opened; once the handle is
\* cleared, connected is false.
C1_ConnectedOnlyAcked ==
    /\ connected => (ws # None /\ hist.opened /\ hist.acked)
    /\ ws = None => ~connected

\* connected on a handle opened by a reconnect, and a later state in which a
\* handle that had been acknowledged is cleared.
C1_Witness ==
    /\ ws = None
    /\ ~connected
    /\ hist.acked
    /\ attempt.slept > 0
    /\ pc = "sleeping"

\* C3: send_sp(type, data) writes a frame iff connected is true, the handle
\* and its protocol are live (the socket open) and is_set_up is true or type
\* is one of the six allowlisted types; otherwise it resolves to not-sent,
\* writes nothing and leaves the keepalive deadline alone; it never raises.
C3_Writes(evt_name) ==
    /\ connected
    /\ ws # None
    /\ ws_protocol # None
    /\ sock = "open"
    /\ \/ is_set_up
       \/ evt_name \in {"connection", "state_change", "shutdown",
                        "machine_data", "keepalive", "firmware"}

C3_SendGate ==
    [][\A evt_name \in EventTypes :
         CallbackSend(evt_name) =>
            /\ last_send' = [evt |-> evt_name, wrote |-> C3_Writes(evt_name)]
            /\ C3_Writes(evt_name) =>
                  /\ keepalive_hdl' # NoHandle
                  /\ \E k \in ka_scheduled' : k.h = keepalive_hdl'
            /\ ~C3_Writes(evt_name) => UNCHANGED <<keepalive_hdl, ka_scheduled>>
            /\ pc' = pc]_vars

\* A gated type was suppressed before setup on a connected, open socket.
C3_Witness ==
    /\ connected
    /\ ws_protocol # None
    /\ sock = "open"
    /\ ~is_set_up
    /\ last_send = [evt |-> "temps", wrote |-> FALSE]

\* C6: whatever demand is processed, with whatever args, the read loop is
\* still running afterwards.
C6_DemandNeverCrashes ==
    [][\A f \in DemandFrames : ReadMessage(f) => pc' = "reading"]_vars

\* C7: a malformed frame (no JSON, JSON that is no {type, data} object, an
\* unknown type) changes nothing but the keepalive deadline, and the read loop
\* goes on.
C7_MalformedDiscarded ==
    [][\A f \in MalformedFrames :
         ReadMessage(f) =>
            /\ pc' = "reading"
            /\ UNCHANGED <<connected, ws, ws_protocol, is_set_up, is_closing,
                           reconnect_token, reconnect_delay, sock, close_pc>>]_vars

\* C8 as claimed: once a socket open succeeded, the sleep before the next
\* attempt is 1 s unless an "error" packet came on that connection.
C8_ResetOnOpen ==
    /\ (pc = "reading" /\ ~hist.error) => reconnect_delay = DelayMin
    /\ (pc = "sleeping" /\ hist.opened /\ ~hist.error) => attempt.slept = DelayMin

\* C8 amended: reconnect_delay is 1 s as soon as a "connected" packet has been
\* handled, and the sleep after a connection whose last packet among
\* "connected" and "error" was "connected" is 1 s.
C8_ResetOnAck ==
    /\ (pc = "reading" /\ hist.acked /\ ~hist.err_last) => reconnect_delay = DelayMin
    /\ (pc = "sleeping" /\ hist.opened /\ hist.acked /\ ~hist.err_last)
          => attempt.slept = DelayMin

\* The delay had been 30 s on this connection and an ack brought it back.
C8_Witness ==
    /\ pc = "sleeping"
    /\ hist.opened
    /\ hist.acked
    /\ hist.error
    /\ ~hist.err_last
    /\ attempt.slept = DelayMin

\* C9: an "error" packet sets reconnect_delay to 30 s and clears the token, the
\* session keeps reading; with no "connected" packet after it, the next
\* attempt carries no token and starts after a sleep of 30 s.  reconnect_delay
\* is only ever 1 s or 30 s.
C9_ErrorBackoff ==
    /\ [](reconnect_delay \in {1, 30})
    /\ []((hist.err_last /\ pc \in {"reading", "sleeping", "connecting"})
             => (reconnect_delay = 30 /\ reconnect_token = None))
    /\ []((hist.err_last /\ pc = "connecting")
             => (~attempt.token /\ attempt.slept = 30))
    /\ [][\A d \in DataShapes :
            ReadMessage(Frame("error", d)) => pc' = "reading"]_vars

\* The attempt that follows a connection ended after an "error" packet.
C9_Witness ==
    /\ pc = "connecting"
    /\ hist.err_last
    /\ hist.acked

\* C2: when the socket has closed under the session's handle (a write that
\* fails with the closed-socket error is a write on such a socket), the read
\* loop is there to take the frames still queued and then the close signal,
\* which disconnects the session; a loop that sleeps does so for
\* reconnect_delay, and the next attempt can start.
C2_Reconnects ==
    /\ (ws # None /\ sock = "closed") =>
          ENABLED (ReadClose \/ \E f \in Frames : ReadMessage(f))
    /\ (pc = "sleeping" /\ ~is_closing) =>
          (attempt.slept = reconnect_delay /\ ENABLED Wake)

\* C4: once _do_close has run, the connection loop has exited, or the session
\* can still take a step of its own that does not wait for the remote.
C4_CloseTerminates ==
    close_pc = "done" =>
        \/ pc \in {"exited", "crashed"}
        \/ ENABLED ((\E st \in PrinterAtStart : Initialize(st))
                    \/ ConnectFail \/ ConnectOk \/ ReadClose \/ Wake
                    \/ CloseCompletes \/ \E f \in Frames : ReadMessage(f))

\* C10: at most one keepalive deadline is pending, it is the one held in
\* keepalive_hdl and is 96 s after the send or message that armed it; none is
\* pending once the handle is cleared; a connected session on an open socket
\* has exactly one, and it will fire (and send "keepalive").
C10_Keepalive ==
    /\ Cardinality(ka_scheduled) <= 1
    /\ \A k \in ka_scheduled : k.h = keepalive_hdl /\ k.after = KEEPALIVE_TIME
    /\ ws = None => ka_scheduled = {}
    /\ (connected /\ ws_protocol # None /\ sock = "open") =>
          /\ Cardinality(ka_scheduled) = 1
          /\ \A k \in ka_scheduled : ENABLED KeepaliveFire(k)

---------------------------------------------------------------------------
(* Claims about FlexTimer *)

\* C5: under every interleaving of start, stop and the completion of the
\* callback, at most one wake is scheduled and at most one callback is in
\* flight; after stop no callback begins until the next start.
C5_SingleWake ==
    /\ [](Cardinality(wakes) <= 1)
    /\ [](Cardinality(InFlight) <= 1)
    /\ [][callback_begins => ~stopped_since]_vars

---------------------------------------------------------------------------
(* The session facing a remote that may go silent *)

\* The session's own steps between a connect and a disconnect, with a remote
\* that acknowledges, reports errors, closes, or does nothing at all.
SilentNext ==
    \/ \E st \in PrinterAtStart : Initialize(st)
    \/ ConnectFail
    \/ ConnectOk
    \/ \E f \in ConnectedFrames \cup OtherFrames : ReadMessage(f)
    \/ ReadClose
    \/ Wake
    \/ RemoteSend
    \/ RemoteClose
    \/ \E evt_name \in EventTypes : CallbackSend(evt_name)
    \/ \E k \in ka_scheduled : KeepaliveFire(k)

\* The loop runs every coroutine that can go on and every timer that is due: a
\* connect attempt ends (connect_timeout), a close signal is read, a sleep
\* ends, the keepalive deadline fires.  Nothing is assumed of the remote
\* (RemoteSend, RemoteClose) or of local events (CallbackSend).
SilentFairness ==
    /\ WF_vars(\E st \in PrinterAtStart : Initialize(st))
    /\ WF_vars(ConnectFail \/ ConnectOk)
    /\ WF_vars(ReadClose)
    /\ WF_vars(Wake)
    /\ WF_vars(\E k \in ka_scheduled : KeepaliveFire(k))

SilentSpec == Init /\ [][SilentNext]_vars /\ SilentFairness

\* C11: a connected session whose remote stays silent on a socket that is not
\* reported closed (no frame arrives, no close signal) is eventually
\* disconnected.
C11_SilenceDisconnects ==
    (connected /\ sock = "open" /\ pc = "reading")
        ~> (~connected \/ inq > 0 \/ sock # "open")

---------------------------------------------------------------------------
(* Part III: what the session reports                                      *)
(* The session with its report cache followed: the printer's events, the    *)
(* periodic samples and the clock act between the steps of the connection  *)
(* loop.                                                                    *)

\* A callback put on the loop by on_event or by a timer runs to its end.
OnLoop(s) ==
    /\ LoopAlive
    /\ pc # "init"
    /\ Commit(s)
    /\ UNCHANGED <<ws, ws_protocol, is_closing, pc, close_pc, sock, inq, attempt>>
    /\ TimerIdle

\* Events.CONNECTED
PrinterConnected ==
    /\ ~cache.is_connected
    /\ OnLoop(on_printer_connected(Cur, "operational"))

\* Events.DISCONNECTED
PrinterDisconnected ==
    /\ cache.is_connected
    /\ OnLoop(on_printer_disconnected(Cur))

\* Events.PRINTER_STATE_CHANGED with one of the states on_event passes on
StateEvents == {"operational", "printing", "pausing", "resuming"}

StateEvent(st) ==
    OnLoop(on_state_event(Cur, st))

\* Events.PRINT_STARTED
PrintStart ==
    /\ cache.is_connected
    /\ ~cache.job_info
    /\ OnLoop(on_print_start(Cur))

\* Events.PRINT_PAUSED
PrintPaused ==
    /\ cache.job_info
    /\ OnLoop(on_print_paused(Cur))

\* Events.PRINT_RESUMED
PrintResumed ==
    /\ cache.job_info
    /\ OnLoop(on_print_resumed(Cur))

\* Events.PRINT_DONE ("finished") and Events.PRINT_FAILED ("failed")
JobStates == {"finished", "failed"}

PrintDone(job_state) ==
    /\ cache.job_info
    /\ OnLoop(on_print_done(Cur, job_state))

\* Events.FIRMWARE_DATA
FirmwareData ==
    /\ cache.is_connected
    /\ OnLoop(send_firmware_data(Cur))

\* A sample that differs from the cache: _handle_temperature_update,
\* _handle_cpu_update, _handle_update_check.
Samples == {"temps", "cpu", "software_updates"}

Sampled(s, what) ==
    CASE what = "temps" -> send_sp([s EXCEPT !.cache.temps = TRUE], "temps")
      [] what = "cpu" -> send_sp([s EXCEPT !.cache.cpu_info = TRUE], "cpu")
      [] OTHER -> send_sp([s EXCEPT !.cache.updates = TRUE], "software_updates")

Sample(what) ==
    /\ what = "temps" => cache.is_connected
    /\ OnLoop(Sampled(Cur, what))

\* Half a second passes.
Tick ==
    /\ now < MaxTime
    /\ now' = now + 1
    /\ UNCHANGED <<connected, ws, ws_protocol, is_set_up, is_closing,
                   reconnect_token, reconnect_delay, keepalive_hdl, pc, close_pc,
                   ka_scheduled, sock, inq, attempt, last_send, hist, cache,
                   missed_job_events, pause_calls, timers, settings, outbox>>
    /\ TimerIdle

\* The acks the remote sends in this part.
AckFrames ==
    {[Frame("connected", "map") EXCEPT !.in_setup = i] : i \in {0, 1}}

DemandFrame(demand) ==
    [Frame("demand", "map") EXCEPT !.demand = demand]

\* The connection loop facing a remote that acks and may drop the socket.
SessionCore ==
    \/ \E st \in PrinterAtStart : Initialize(st)
    \/ ConnectOk
    \/ \E f \in AckFrames : ReadMessage(f)
    \/ ReadClose
    \/ Wake
    \/ RemoteSend
    \/ RemoteClose

ReportInit ==
    /\ SessInit
    /\ timers = TimersAside
    /\ TimerInit
    /\ host = NoEvents
    /\ comm = NoRequests
    /\ sys_manager = NoJob
    /\ cam = NoCam
    /\ work = NoWork
    /\ link = NoLink
    /\ ai = NoAi
    /\ remote = NoView
    /\ settings = SettingsAside
    /\ PartsAtRest
    /\ cache = ReportCache

\* The initial push: the cache fills from the printer's events and the
\* samples; the helpers' answers are fixed for a run.
PushInit ==
    /\ SessInit
    /\ timers = TimersAside
    /\ TimerInit
    /\ host = NoEvents
    /\ comm = NoRequests
    /\ sys_manager = NoJob
    /\ cam = NoCam
    /\ work = NoWork
    /\ link = NoLink
    /\ ai = NoAi
    /\ remote = NoView
    /\ settings = SettingsAside
    /\ PartsAtRest
    /\ cache \in {[ReportCache EXCEPT !.power_state = p,
                                      !.filament_sensor_state = fs] :
                    p \in BOOLEAN, fs \in BOOLEAN}

PushNext ==
    \/ SessionCore
    \/ PrinterConnected
    \/ PrinterDisconnected
    \/ FirmwareData
    \/ \E what \in Samples : Sample(what)
    \/ \E d \in {"cancel", "resume"} : ReadMessage(DemandFrame(d))

PushSpec == PushInit /\ [][PushNext]_vars

\* Job events while the session connects, drops and reconnects.
JobNext ==
    \/ SessionCore
    \/ PrintStart
    \/ \E job_state \in JobStates : PrintDone(job_state)
    \/ Tick

JobSpec == ReportInit /\ [][JobNext]_vars

\* A print that the remote pauses.
PauseNext ==
    \/ SessionCore
    \/ \E st \in StateEvents : StateEvent(st)
    \/ PrintStart
    \/ PrintPaused
    \/ PrintResumed
    \/ ReadMessage(DemandFrame("pause"))

PauseSpec == ReportInit /\ [][PauseNext]_vars

---------------------------------------------------------------------------
(* Claims about the reports *)

\* The event types of a list of send_sp calls.
Names(box) == [i \in 1..Len(box) |-> box[i].evt]

Opt(cond, evt_name) == IF cond THEN <<evt_name>> ELSE <<>>

\* The order of the initial push for a cache c and n buffered job events;
\* always: tool, cpu stats, power state and filament-sensor state are listed
\* whatever the cache and the helpers hold.
PushOrder(c, n, always) ==
    <<"state_change">> \o Opt(c.temps, "temps")
        \o Opt(c.firmware_info, "firmware")
        \o <<"machine_data", "webcam">>
        \o [i \in 1..n |-> "job_info"]
        \o Opt(always \/ c.active_extruder # "", "tool")
        \o Opt(always \/ c.cpu_info, "cpu_info")
        \o <<"ambient">>
        \o Opt(always \/ c.power_state, "power_controller")
        \o Opt(always \/ c.filament_sensor_state, "filament_sensor")
        \o <<"installed_plugins">>
        \o Opt(c.updates, "software_updates")
        \o <<"webcam_status">>

PushedInOrder(always) ==
    \A f \in AckFrames :
        ReadMessage(f) =>
            /\ Names(outbox') = PushOrder(cache, Len(missed_job_events), always)
            /\ outbox'[1].data = [new |-> cache.state]

\* C12 as stated: on every `connected` ack the handler hands to send_sp, in
\* this order and nothing before: state_change with the cached state, temps
\* (if cached), firmware (if known), machine_data, webcam, the buffered
\* job_info events, tool, cpu stats, ambient, power state, filament-sensor
\* state, installed plugins, software updates (if known), webcam_status.
C12_PushOrderAsListed == [][PushedInOrder(TRUE)]_vars

\* C12, amended: the same order, where tool is sent only if an active
\* extruder is cached, cpu stats only if cached, and the power state and the
\* filament-sensor state only if their helper has an answer.
C12_PushOrder == [][PushedInOrder(FALSE)]_vars

\* A push that made every send of the list, a buffered job event included.
C12_Witness ==
    /\ connected
    /\ Len(outbox) >= 14
    /\ Names(outbox) = PushOrder(cache, Len(outbox) - 13, TRUE)
    /\ cache.temps /\ cache.firmware_info /\ cache.updates

\* The job_info sends among a list of send_sp calls.
JobSends(box) == SelectSeq(box, LAMBDA x : x.evt = "job_info")

\* The buffered events evts as the push at time curtime has to write them.
Flushed(evts, curtime) ==
    [i \in 1..Len(evts) |->
        [evt |-> "job_info",
         data |-> [job |-> evts[i].job,
                   delay |-> ElapsedSeconds(curtime, evts[i].delay)],
         wrote |-> TRUE]]

\* C13: at a `connected` ack every job event in the buffer is written to the
\* socket during the push, in queue order and with its delay (the time of the
\* push less the time it was queued, in whole seconds); the buffer is empty
\* afterwards, so no buffered event is dropped unsent.
C13_BufferFlushed ==
    [][\A f \in AckFrames :
          ReadMessage(f) =>
              /\ missed_job_events' = <<>>
              /\ JobSends(outbox') = Flushed(missed_job_events, now)]_vars

\* A job event is generated: a print starts or ends.
JobEvent(kind) ==
    IF kind = "started" THEN PrintStart ELSE PrintDone(kind)

\* The last n entries of a sequence.
LastOf(seq, n) ==
    IF Len(seq) <= n THEN seq ELSE SubSeq(seq, Len(seq) - n + 1, Len(seq))

StateSends(box) == SelectSeq(box, LAMBDA x : x.evt = "state_change")

\* send_sp writes a state_change frame: the session is acked and the socket
\* is open.
Writes == connected /\ ws # None /\ ws_protocol # None /\ sock = "open"

OneStateChange(new_state) ==
    StateSends(outbox') =
        <<[evt |-> "state_change", data |-> [new |-> new_state], wrote |-> Writes]>>

\* C16: a `pause` demand handled while the cached state is `printing` calls
\* the printer's pause once, moves the cached state to `pausing` and makes
\* one state_change send; the printer's own `pausing` state event then sends
\* nothing; its print-paused event moves the cached state to `paused` with
\* one state_change send and no further pause call.  A send is written if
\* the session is acked and its socket open.
C16_PauseOnce ==
    /\ [][(ReadMessage(DemandFrame("pause")) /\ cache.state = "printing") =>
            /\ pause_calls' = 1
            /\ cache'.state = "pausing"
            /\ OneStateChange("pausing")]_vars
    /\ [][(StateEvent("pausing") /\ cache.state = "pausing") =>
            /\ pause_calls' = 0
            /\ cache' = cache
            /\ outbox' = <<>>]_vars
    /\ [][(PrintPaused /\ cache.state = "pausing") =>
            /\ pause_calls' = 0
            /\ cache'.state = "paused"
            /\ OneStateChange("paused")]_vars

\* The pause demand of the remote has been handled on an acked session, on
\* a printer that was printing.
C16_Witness ==
    /\ connected
    /\ pause_calls = 1
    /\ cache.state = "pausing"
    /\ cache.job_info
    /\ outbox = <<[evt |-> "state_change", data |-> [new |-> "pausing"],
                   wrote |-> TRUE]>>

---------------------------------------------------------------------------
(* Part IV: the sampled metric groups                                      *)
(* One group is followed per run: its cache (cache.cpu_info, cache.temps   *)
(* or cache.job_info), the readings last received and the payload the last *)
(* sample made the handler hand to send_sp (EmptyDict: no send_sp call).   *)

Groups == {"cpu", "temps", "job"}

\* int(x + .5) for x given in halves, and in quarters.
RoundHalves(h) == (h + 1) \div 2
RoundQuarters(q) == (q + 2) \div 4

Abs(x) == IF x < 0 THEN 0 - x ELSE x

\* dict.update
Updated(d, upd) ==
    [k \in DOMAIN d \cup DOMAIN upd |-> IF k \in DOMAIN upd THEN upd[k] ELSE d[k]]

\* dict.pop(key)
Without(d, key) == [k \in DOMAIN d \ {key} |-> d[k]]

\* Faulty variant: the whole new object is the diff.
get_object_whole(new_obj, cached_obj) == new_obj

\* _get_object_diff
get_object_diff(new_obj, cached_obj) ==
    IF DOMAIN cached_obj = {} THEN new_obj
    ELSE [k \in {x \in DOMAIN new_obj :
                    ~(x \in DOMAIN cached_obj /\ new_obj[x] = cached_obj[x])}
            |-> new_obj[k]]

\* ---- cpu stats ----
\* Readings of the resource monitor: cpu, memory and temperature in halves
\* (of a percent, of a degree), the throttle flags as they are.
HalfReadings == 0..2
CpuSamples ==
    [cpu : HalfReadings, memory : HalfReadings, temp : HalfReadings,
     flags : {0, 1}]

\* cpu_data of _handle_cpu_update
cpu_data(raw) ==
    [usage |-> RoundHalves(raw.cpu), temp |-> RoundHalves(raw.temp),
     memory |-> RoundHalves(raw.memory), flags |-> raw.flags]

\* _handle_cpu_update
handle_cpu_update(m, raw) ==
    LET diff == get_object_diff(cpu_data(raw), m.cache)
    IN IF diff # EmptyDict
       THEN [m EXCEPT !.cache = Updated(@, cpu_data(raw)), !.payload = diff,
                      !.sample = cpu_data(raw)]
       ELSE [m EXCEPT !.payload = EmptyDict, !.sample = cpu_data(raw)]

\* ---- temperatures ----
Heaters == {"tool0", "bed"}

\* Readings of a heater in quarters of a degree (20, 20.5, 20.75 and 30
\* degrees) and its targets in degrees.
QuarterReadings == {80, 82, 83, 120}
Targets == {0, 20}
TempSamples == [Heaters -> [actual : QuarterReadings, target : Targets]]

\* self.amb_detect.ambient as the temperature handler reads it.
AmbientRead == 25

\* `ret` of _handle_temperature_update
temp_ret(reading) == <<RoundQuarters(reading.actual), reading.target>>

temp_fields(cur) == [h \in Heaters |-> temp_ret(cur[h])]

\* One pass of the loop of _handle_temperature_update, for heater h: what it
\* adds to temp_data (EmptyDict: nothing), and what it leaves in
\* last_received_temps and in cache.temps.
temp_step(m, h, reading) ==
    LET ret == temp_ret(reading)
        last_temps == IF h \in DOMAIN m.cache THEN m.cache[h] ELSE <<-100, -100>>
        seeking_target ==
            IF ret[2] # 0 THEN Abs(ret[2] - ret[1]) > 5
            ELSE ret[1] >= AmbientRead + 25
        sent(data) ==
            [data |-> data, received |-> reading.actual, cached |-> ret,
             pop |-> FALSE, caches |-> TRUE]
    IN IF ret[2] = last_temps[2]
       THEN IF /\ h \in DOMAIN m.last_received
               /\ ~seeking_target
               /\ Abs(reading.actual - m.last_received[h]) < 3   \* < .75
            THEN [data |-> EmptyDict, received |-> 0, cached |-> ret,
                  pop |-> TRUE, caches |-> FALSE]
            ELSE IF ret[1] = last_temps[1]
                 THEN [data |-> EmptyDict, received |-> reading.actual,
                       cached |-> ret, pop |-> FALSE, caches |-> FALSE]
                 ELSE sent(<<ret[1]>>)
       ELSE sent(ret)

\* _handle_temperature_update (the printer is operational, no chamber)
handle_temperature_update(m, cur) ==
    LET step(h) == temp_step(m, h, cur[h])
        told == {h \in Heaters : step(h).data # EmptyDict}
        kept == {h \in DOMAIN m.last_received : ~(h \in Heaters /\ step(h).pop)}
        got == {h \in Heaters : ~step(h).pop}
    IN [m EXCEPT
          !.cache = [h \in DOMAIN @ \cup {x \in Heaters : step(x).caches} |->
                       IF h \in Heaters /\ step(h).caches
                       THEN step(h).cached ELSE @[h]],
          !.last_received = [h \in kept \cup got |->
                               IF h \in got THEN step(h).received ELSE @[h]],
          !.payload = [h \in told |-> step(h).data],
          !.sample = temp_fields(cur)]

\* ---- job progress ----
\* printer.get_current_data()["progress"] and self.current_layer: the time
\* left in seconds (-1: None), the percentage done in halves of a percent,
\* the layer.
TimesLeft == {NoTime, 50, 100, 120, 130}
Layers == {-1, 0}
JobSamples ==
    [printing : BOOLEAN, time_left : TimesLeft, completion : HalfReadings,
     layer : Layers]

Get(d, key, default) == IF key \in DOMAIN d THEN d[key] ELSE default

job_fields(smp) ==
    [k \in {"progress", "layer"} \cup (IF smp.time_left = NoTime THEN {} ELSE {"time"})
        |-> CASE k = "time" -> smp.time_left
              [] k = "progress" -> RoundHalves(smp.completion)
              [] OTHER -> smp.layer]

\* _handle_job_info_update (the percentage is that of "completion", or the
\* one computed from the print time; the display is not followed)
handle_job_info_update(m, smp) ==
    IF ~smp.printing THEN [m EXCEPT !.payload = EmptyDict, !.sample = EmptyDict]
    ELSE
    LET last_time_left == Get(m.cache, "time", smp.time_left + 60)
        time_diff == last_time_left - smp.time_left
        pct_done == RoundHalves(smp.completion)
        tells ==
            (IF /\ smp.time_left # NoTime
                /\ (smp.time_left < 60 \/ time_diff >= 30)
                /\ smp.time_left # last_time_left
             THEN {"time"} ELSE {})
            \cup (IF pct_done # Get(m.cache, "progress", 0)
                  THEN {"progress"} ELSE {})
            \cup (IF smp.layer # Get(m.cache, "layer", -1) THEN {"layer"} ELSE {})
        job_info == [k \in tells |-> job_fields(smp)[k]]
    IN [m EXCEPT !.cache = Updated(@, job_info), !.payload = job_info,
                 !.sample = job_fields(smp)]

\* ---- the timers fire ----
MetricStep(m) ==
    /\ metric' = m
    /\ UNCHANGED <<sessVars, timerVars, amb, xfer, host, extVars>>

CpuUpdate(raw) ==
    /\ metric.group = "cpu"
    /\ MetricStep(handle_cpu_update(metric, raw))

TemperatureUpdate(cur) ==
    /\ metric.group = "temps"
    /\ MetricStep(handle_temperature_update(metric, cur))

JobInfoUpdate(smp) ==
    /\ metric.group = "job"
    /\ MetricStep(handle_job_info_update(metric, smp))

MetricInit ==
    /\ SessInit
    /\ timers = TimersAside
    /\ TimerInit
    /\ host = NoEvents
    /\ comm = NoRequests
    /\ sys_manager = NoJob
    /\ cam = NoCam
    /\ work = NoWork
    /\ link = NoLink
    /\ ai = NoAi
    /\ remote = NoView
    /\ settings = SettingsAside
    /\ cache = ReportCache
    /\ amb = EmptyDict
    /\ xfer = EmptyDict
    /\ metric \in {[group |-> g, cache |-> EmptyDict, last_received |-> EmptyDict,
                    sample |-> EmptyDict, payload |-> EmptyDict] : g \in Groups}

MetricNext ==
    \/ \E raw \in CpuSamples : CpuUpdate(raw)
    \/ \E cur \in TempSamples : TemperatureUpdate(cur)
    \/ \E smp \in JobSamples : JobInfoUpdate(smp)

MetricSpec == MetricInit /\ [][MetricNext]_vars

---------------------------------------------------------------------------
(* Claims about the sampled metric groups *)

\* The fields of a sample whose value differs from the cached copy.
Changed(fields, cached) ==
    {k \in DOMAIN fields : ~(k \in DOMAIN cached /\ fields[k] = cached[k])}

\* C15 as stated, for the sample a handler has just taken: a sample equal to
\* the one before it sends nothing; a sample with changed fields sends
\* exactly the fields that differ from the cached copy, and the cache equals
\* the sample afterwards.
DiffExact ==
    LET fields == metric'.sample
        changed == Changed(fields, metric.cache)
    IN /\ fields = metric.sample => metric'.payload = EmptyDict
       /\ changed # {} =>
            /\ DOMAIN metric'.payload = changed
            /\ metric'.cache = fields

C15_DiffExact == [][MetricNext => DiffExact]_vars

\* C15, amended: a sample with no field that differs from the cached copy
\* sends nothing; a payload holds only fields (heaters, for the temperatures)
\* that differ from the cached copy, and the cache equals the sample in the
\* fields sent; for the cpu stats the payload holds exactly the differing
\* fields and the cache equals the sample afterwards.
DiffOnly ==
    LET fields == metric'.sample
        changed == Changed(fields, metric.cache)
    IN /\ changed = {} => metric'.payload = EmptyDict
       /\ DOMAIN metric'.payload \subseteq changed
       /\ \A k \in DOMAIN metric'.payload : metric'.cache[k] = fields[k]
       /\ metric.group = "cpu" =>
            /\ DOMAIN metric'.payload = changed
            /\ changed # {} => metric'.cache = fields

C15_DiffOnly == [][MetricNext => DiffOnly]_vars

\* A temperature sample in which both heaters differ from the cache: the
\* bed's is sent, the tool's is withheld by the debounce.
C15_Witness ==
    /\ metric.group = "temps"
    /\ DOMAIN metric.payload = {"bed"}
    /\ DOMAIN metric.cache = Heaters
    /\ metric.cache["tool0"] # metric.sample["tool0"]
    /\ metric.cache["bed"] = metric.sample["bed"]

---------------------------------------------------------------------------
(* Part V: AmbientDetect                                                   *)
(* amb.elapsed is eventtime - _last_sample_time at the next firing of the  *)
(* detect timer, in seconds and no further than the longest interval;      *)
(* amb.called lists the calls of the change callback made by the last step.*)

AMBIENT_CHECK_TIME == 300
TARGET_CHECK_TIME == 3600
SAMPLE_CHECK_TIME == 20
CHECK_INTERVAL == 5
NoSample == -1000

\* cache.temps["tool0"] as the detector finds it: absent, or [temp, target].
AmbTemps == 19..23
AmbTargets == {0, 200}
AmbReadings ==
    {[present |-> FALSE, temp |-> 0, target |-> 0]}
    \cup [present : {TRUE}, temp : AmbTemps, target : AmbTargets]

\* settings ambient_temp
InitialAmbient == 21

\* Faulty variant: the average is cut, not rounded.
CutAverage(a, b) == (a + b) \div 2

\* int((temp + self._initial_sample) / 2 + .5)
RoundAverage(a, b) == (a + b + 1) \div 2

\* eventtime - self._last_sample_time, CHECK_INTERVAL later
Later(elapsed) ==
    IF elapsed + CHECK_INTERVAL > TARGET_CHECK_TIME THEN TARGET_CHECK_TIME
    ELSE elapsed + CHECK_INTERVAL

\* _handle_detect_timer
handle_detect_timer(a, rd) ==
    IF ~rd.present
    THEN [a EXCEPT !.initial_sample = NoSample, !.elapsed = Later(@),
                   !.called = <<>>]
    ELSE IF rd.target # 0
    THEN [a EXCEPT !.initial_sample = NoSample, !.elapsed = CHECK_INTERVAL,
                   !.update_interval = TARGET_CHECK_TIME, !.called = <<>>]
    ELSE IF a.elapsed < a.update_interval
    THEN [a EXCEPT !.elapsed = Later(@), !.called = <<>>]
    ELSE IF a.initial_sample = NoSample
    THEN [a EXCEPT !.initial_sample = rd.temp,
                   !.update_interval = SAMPLE_CHECK_TIME,
                   !.elapsed = Later(@), !.called = <<>>]
    ELSE IF Abs(rd.temp - a.initial_sample) <= 2
    THEN LET new == RoundAverage(rd.temp, a.initial_sample)
         IN [a EXCEPT !.ambient = new, !.initial_sample = NoSample,
                      !.elapsed = CHECK_INTERVAL,
                      !.update_interval = AMBIENT_CHECK_TIME,
                      !.called = IF a.ambient # new THEN <<new>> ELSE <<>>]
    ELSE [a EXCEPT !.initial_sample = rd.temp,
                   !.update_interval = SAMPLE_CHECK_TIME,
                   !.elapsed = Later(@), !.called = <<>>]

\* AmbientDetect.start, the timer not running
amb_start(a, rd) ==
    LET lower == rd.present /\ rd.temp < a.ambient
    IN [a EXCEPT !.running = TRUE,
                 !.ambient = IF lower THEN rd.temp ELSE @,
                 !.called = IF lower THEN <<rd.temp>> ELSE <<>>]

AmbStep(a) ==
    /\ amb' = a
    /\ UNCHANGED <<sessVars, timerVars, metric, xfer, host, extVars>>

\* History: the seconds from the reading that became the initial sample to
\* the next firing of the timer (no further than SAMPLE_CHECK_TIME), NoTime
\* while there is no initial sample.  b is the detector after the firing
\* that found it as a.
since_first(a, b) ==
    IF b.initial_sample = NoSample THEN NoTime
    ELSE IF b.initial_sample # a.initial_sample \/ a.since_first = NoTime
    THEN CHECK_INTERVAL
    ELSE IF a.since_first + CHECK_INTERVAL > SAMPLE_CHECK_TIME
    THEN SAMPLE_CHECK_TIME
    ELSE a.since_first + CHECK_INTERVAL

\* The detect timer fires.
DetectTimer(rd) ==
    /\ amb.running
    /\ LET b == handle_detect_timer(amb, rd)
       IN AmbStep([b EXCEPT !.since_first = since_first(amb, b)])

\* _on_printer_connected: self.amb_detect.start()
AmbStart(rd) ==
    /\ ~amb.running
    /\ AmbStep(amb_start(amb, rd))

\* _do_close: self.amb_detect.stop()
AmbStop ==
    /\ amb.running
    /\ AmbStep([amb EXCEPT !.running = FALSE, !.called = <<>>])

\* AmbientDetect.__init__; the loop's clock at the first firing is anything.
AmbInit ==
    /\ SessInit
    /\ timers = TimersAside
    /\ TimerInit
    /\ host = NoEvents
    /\ comm = NoRequests
    /\ sys_manager = NoJob
    /\ cam = NoCam
    /\ work = NoWork
    /\ link = NoLink
    /\ ai = NoAi
    /\ remote = NoView
    /\ settings = SettingsAside
    /\ cache = ReportCache
    /\ metric = [group |-> "none", cache |-> EmptyDict, last_received |-> EmptyDict,
                 sample |-> EmptyDict, payload |-> EmptyDict]
    /\ xfer = EmptyDict
    /\ amb \in {[running |-> FALSE, initial_sample |-> NoSample,
                 ambient |-> InitialAmbient, elapsed |-> e,
                 update_interval |-> AMBIENT_CHECK_TIME, called |-> <<>>,
                 since_first |-> NoTime] :
                    e \in {0, TARGET_CHECK_TIME}}

AmbNext ==
    \/ \E rd \in AmbReadings : DetectTimer(rd)
    \/ \E rd \in AmbReadings : AmbStart(rd)
    \/ AmbStop

AmbSpec == AmbInit /\ [][AmbNext]_vars

\* The firing takes a sample of the idle tool0, a first sample being held.
SecondSample(rd) ==
    /\ rd.present
    /\ rd.target = 0
    /\ amb.elapsed >= amb.update_interval
    /\ amb.initial_sample # NoSample

\* The estimate is the average of the two samples, in whole degrees (a half
\* counts up).
IsAverage(avg, u, v) == 2 * avg \in {u + v, u + v + 1}

AmbientSettled(once) ==
    \A rd \in AmbReadings :
        (DetectTimer(rd) /\ SecondSample(rd)) =>
            IF Abs(rd.temp - amb.initial_sample) <= 2
            THEN /\ IsAverage(amb'.ambient, rd.temp, amb.initial_sample)
                 /\ amb'.called =
                        IF once \/ amb'.ambient # amb.ambient
                        THEN <<amb'.ambient>> ELSE <<>>
            ELSE /\ amb'.ambient = amb.ambient
                 /\ amb'.called = <<>>
                 /\ amb'.initial_sample = rd.temp

\* C20 as stated: two consecutive idle samples of tool0 within 2 degrees make
\* their average the ambient estimate and the change callback fires exactly
\* once with it; after a second sample more than 2 degrees away the estimate
\* is unchanged, the callback does not fire and the second sample is the new
\* initial sample.
C20_AmbientAlwaysCalls == [][AmbientSettled(TRUE)]_vars

\* C20, amended: the callback fires (once, with the new estimate) only if
\* the new estimate differs from the previous one.
C20_Ambient == [][AmbientSettled(FALSE)]_vars

\* Two samples within 2 degrees have just moved the estimate, and the
\* callback has fired once with it.
C20_Witness ==
    /\ amb # EmptyDict
    /\ amb.running
    /\ amb.called = <<amb.ambient>>
    /\ amb.initial_sample = NoSample
    /\ amb.update_interval = AMBIENT_CHECK_TIME
    /\ amb.elapsed = CHECK_INTERVAL

---------------------------------------------------------------------------
(* Part VI: SimplyPrintFileHandler                                         *)
(* A `file` demand starts _download_sp_file on an executor thread; the     *)
(* thread hands its file_progress messages to the loop (add_callback),     *)
(* which sends them in that order.  For the transfer last started,         *)
(* xfer.log lists what the thread did (the messages it handed over         *)
(* included) and xfer.sent what the loop made of the messages.             *)

MaxAttempts == 100

\* Percentages the download reports after the first (0).
Percents == {100}

IdleTransfer ==
    [pc |-> "idle", start |-> FALSE, pct |-> -1, count |-> 0, added |-> FALSE,
     selected |-> FALSE, pending_file |-> FALSE, start_event |-> TRUE,
     started_event |-> FALSE, callbacks |-> <<>>, log |-> <<>>, sent |-> <<>>]

\* What the thread did.
did(x, what) == [x EXCEPT !.log = Append(@, what)]

\* A thread that keeps a message while the session is away.
add_callback_connected(x, st) ==
    IF connected THEN [did(x, st) EXCEPT !.callbacks = Append(@, st)]
    ELSE did(x, st)

\* self._loop.add_callback(self.socket.send_sp, "file_progress", {"state": st})
add_callback(x, st) == [did(x, st) EXCEPT !.callbacks = Append(@, st)]

\* The thread ends with an error message (its locals end with it).
fails(x) == [add_callback(x, "error") EXCEPT !.pc = "done", !.count = 0]

XferStep(x) ==
    /\ xfer' = x
    /\ UNCHANGED <<sessVars, timerVars, metric, amb, host, extVars>>

\* _process_demand ("file", a url given): download_file(url, start), on a
\* session that reads its socket.
Download(auto_start) ==
    /\ pc = "reading"
    /\ xfer.pc \in {"idle", "done"}
    /\ xfer.callbacks = <<>>
    /\ XferStep([xfer EXCEPT !.pc = "requesting", !.start = auto_start, !.pct = -1,
                             !.count = 0, !.added = FALSE, !.selected = FALSE,
                             !.started_event = FALSE, !.log = <<>>,
                             !.sent = <<>>])

\* requests.get or raise_for_status raises.
RequestFails ==
    /\ xfer.pc = "requesting"
    /\ XferStep(fails(xfer))

\* A handler that keeps the percentage to itself.
update_progress_silent(x, percent) == [x EXCEPT !.pct = percent]

\* _update_progress
update_progress(x, percent) ==
    IF percent = x.pct THEN x
    ELSE add_callback([x EXCEPT !.pct = percent], "downloading")

\* The response arrives: _update_progress(0).
RequestOk ==
    /\ xfer.pc = "requesting"
    /\ XferStep([update_progress(xfer, 0) EXCEPT !.pc = "downloading"])

\* A chunk arrives and moves the percentage.
Chunk(percent) ==
    /\ xfer.pc = "downloading"
    /\ percent > xfer.pct
    /\ XferStep(update_progress(xfer, percent))

\* Reading or writing a chunk raises.
ChunkFails ==
    /\ xfer.pc = "downloading"
    /\ XferStep(fails(xfer))

\* The last chunk is written.
DownloadDone ==
    /\ xfer.pc = "downloading"
    /\ XferStep([did(xfer, "downloaded") EXCEPT !.pc = "placing"])

\* A loop that goes to the next name whatever the answer.
place_next_name(x, can_modify) == [x EXCEPT !.count = @ + 1]

\* One pass of `while count < 100`: the name can be modified and the file is
\* added (`break`; count is not read again), or it cannot and the next name
\* is tried.
place(x, can_modify) ==
    IF can_modify
    THEN [did(x, "added") EXCEPT !.added = TRUE, !.pc = "selecting", !.count = 0]
    ELSE [x EXCEPT !.count = @ + 1]

Place(can_modify) ==
    /\ xfer.pc = "placing"
    /\ xfer.count < MaxAttempts
    /\ XferStep(place(xfer, can_modify))

\* The file manager raises in a pass.
PlaceFails ==
    /\ xfer.pc = "placing"
    /\ xfer.count < MaxAttempts
    /\ XferStep(fails(xfer))

\* The `else` of the loop: no pass placed the file.
PlaceExhausted ==
    /\ xfer.pc = "placing"
    /\ xfer.count >= MaxAttempts
    /\ XferStep([fails(xfer) EXCEPT !.count = xfer.count])

\* select_file, is_current_file, and the wait for the analysis.
Select(selected) ==
    /\ xfer.pc = "selecting"
    /\ XferStep(IF selected
                THEN [did(xfer, "selected") EXCEPT !.selected = TRUE,
                                                 !.pc = "staged"]
                ELSE fails(xfer))

\* start_print from `pending = self.pending_file` on
start_print(x, current) ==
    IF ~x.pending_file THEN [x EXCEPT !.pc = "done"]
    ELSE IF ~current THEN fails([x EXCEPT !.pending_file = FALSE])
    ELSE [did(x, "start_print") EXCEPT !.pending_file = FALSE,
                                      !.start_event = FALSE, !.pc = "starting"]

\* `self.pending_file = storage_path`, then start_print() or the ready message.
Staged(current) ==
    /\ xfer.pc = "staged"
    /\ XferStep(LET x == [xfer EXCEPT !.pending_file = TRUE]
                IN IF x.start THEN start_print(x, current)
                   ELSE [add_callback(x, "ready") EXCEPT !.pc = "done"])

\* The printer reports the start of the print: on_event puts _on_print_start
\* on the loop.
PrinterStarts ==
    /\ xfer.pc \in {"starting", "done"}
    /\ \E i \in DOMAIN xfer.log : xfer.log[i] = "start_print"
    /\ ~xfer.started_event
    /\ XferStep([xfer EXCEPT !.callbacks = Append(@, "print_started"),
                             !.started_event = TRUE])

\* start_event.wait(10.) returns: set by notify_started, or timed out.
StartWaitEnds ==
    /\ xfer.pc = "starting"
    /\ XferStep(IF xfer.start_event THEN [xfer EXCEPT !.pc = "done"]
                ELSE fails([xfer EXCEPT !.start_event = TRUE]))

\* The loop runs the callback at the head of its queue: send_sp with a
\* file_progress state, or _on_print_start.
RunCallback ==
    /\ LoopAlive
    /\ pc # "init"
    /\ xfer.callbacks # <<>>
    /\ LET cb == Head(xfer.callbacks)
           rest == [xfer EXCEPT !.callbacks = Tail(@)]
           pending == ~xfer.start_event
           s == IF cb = "print_started"
                THEN on_print_start(
                        IF pending
                        THEN send_data(Cur, "file_progress", [state |-> "started"])
                        ELSE Cur)
                ELSE send_data(Cur, "file_progress", [state |-> cb])
           told == IF cb = "print_started" /\ ~pending THEN <<>>
                   ELSE <<[what |-> IF cb = "print_started" THEN "started" ELSE cb,
                           wrote |-> s.sent[1].wrote]>>
       IN /\ Commit(s)
          /\ xfer' = [rest EXCEPT !.sent = @ \o told,
                                  !.start_event = IF cb = "print_started"
                                                  THEN TRUE ELSE @]
    /\ UNCHANGED <<ws, ws_protocol, is_closing, pc, close_pc, sock, inq, attempt>>
    /\ UNCHANGED <<timerVars, metric, amb, host, extVars>>

FileInit ==
    /\ SessInit
    /\ timers = TimersAside
    /\ TimerInit
    /\ host = NoEvents
    /\ comm = NoRequests
    /\ sys_manager = NoJob
    /\ cam = NoCam
    /\ work = NoWork
    /\ link = NoLink
    /\ ai = NoAi
    /\ remote = NoView
    /\ settings = SettingsAside
    /\ cache = [ReportCache EXCEPT !.state = Unknown]
    /\ metric = [group |-> "none", cache |-> EmptyDict, last_received |-> EmptyDict,
                 sample |-> EmptyDict, payload |-> EmptyDict]
    /\ amb = EmptyDict
    /\ xfer = IdleTransfer

FileNext ==
    \/ SessionCore
    \/ \E auto_start \in BOOLEAN : Download(auto_start)
    \/ RequestFails
    \/ RequestOk
    \/ \E percent \in Percents : Chunk(percent)
    \/ ChunkFails
    \/ DownloadDone
    \/ \E can_modify \in BOOLEAN : Place(can_modify)
    \/ PlaceFails
    \/ PlaceExhausted
    \/ \E selected \in BOOLEAN : Select(selected)
    \/ \E current \in BOOLEAN : Staged(current)
    \/ PrinterStarts
    \/ StartWaitEnds
    \/ RunCallback

FileSpec == FileInit /\ [][FileNext]_vars

---------------------------------------------------------------------------
(* Claims about the file handler                                           *)

\* The places of an entry in a sequence.
At(seq, what) == {i \in DOMAIN seq : seq[i] = what}

\* The error messages the transfer has handed to the loop.
ErrorEvents(x) == Cardinality(At(x.log, "error"))

\* The transfer ended in the `else` of the placement loop.
Exhausted == xfer.pc = "done" /\ xfer.count = MaxAttempts

\* The placement loop: no more than 100 passes; a pass whose name can be
\* modified adds the file and ends the loop; after 100 refused passes one
\* error message is queued and the transfer ends with nothing added and
\* nothing selected.
PlacementLoop ==
    /\ [](xfer.count <= MaxAttempts)
    /\ [][\A c \in BOOLEAN : Place(c) => xfer.count + 1 <= MaxAttempts]_vars
    /\ [][Place(TRUE) => xfer'.added /\ xfer'.pc = "selecting"]_vars
    /\ [][PlaceExhausted =>
            /\ xfer.count = MaxAttempts
            /\ xfer'.callbacks = Append(xfer.callbacks, "error")
            /\ xfer'.pc = "done"]_vars
    /\ [](Exhausted => /\ ErrorEvents(xfer) = 1
                       /\ ~xfer.added
                       /\ ~xfer.selected)

\* C19 as stated: the placement loop behaves as PlacementLoop says, and when
\* all 100 passes fail no pending file is left.
C19_NoPendingFile ==
    /\ PlacementLoop
    /\ [](Exhausted => ~xfer.pending_file)

\* C19, amended: the placement loop behaves as PlacementLoop says, and when
\* all 100 passes fail the transfer sets no pending file: pending_file is
\* what it was before the failure (a file staged by an earlier transfer and
\* never started stays pending).
C19_Placement ==
    /\ PlacementLoop
    /\ [][PlaceExhausted => xfer'.pending_file = xfer.pending_file]_vars
    /\ [][xfer.pc \in {"requesting", "downloading", "placing"}
            => xfer'.pending_file = xfer.pending_file]_vars

\* All 100 passes failed, one error message went out, and the file staged by
\* an earlier transfer is still pending.
C19_Witness ==
    /\ Exhausted
    /\ xfer.pending_file
    /\ xfer.callbacks = <<>>
    /\ ErrorEvents(xfer) = 1
    /\ \E i \in DOMAIN xfer.sent : xfer.sent[i].what = "error"

\* Every a of the sequence comes before every b.
Before(seq, a, b) == \A i \in At(seq, a), j \in At(seq, b) : i < j

\* The places of a message among those the loop has sent.
SentAt(what) == {i \in DOMAIN xfer.sent : xfer.sent[i].what = what}

\* The step invokes printer.start_print().
StartInvoked ==
    At(xfer.log, "start_print") = {} /\ At(xfer'.log, "start_print") # {}

\* With auto_start, print-start is invoked at most once, and only after one
\* or more download-state messages, the end of the download, the placement
\* of the file and its selection, in this order.
StartAfterStaging ==
    /\ [](Cardinality(At(xfer.log, "start_print")) <= 1)
    /\ [](xfer.start /\ At(xfer.log, "start_print") # {}
            => /\ At(xfer.log, "downloading") # {}
               /\ Cardinality(At(xfer.log, "downloaded")) = 1
               /\ Cardinality(At(xfer.log, "added")) = 1
               /\ Cardinality(At(xfer.log, "selected")) = 1
               /\ Before(xfer.log, "downloading", "downloaded")
               /\ Before(xfer.log, "downloaded", "added")
               /\ Before(xfer.log, "added", "selected")
               /\ Before(xfer.log, "selected", "start_print"))

\* C17 as stated: with auto_start the download-state messages come first,
\* then the ready/started messages, then the selection of the file and the
\* invocation of print-start, which happens once and after the staging.
C17_ReadyStartedFirst ==
    /\ StartAfterStaging
    /\ [][xfer.start /\ StartInvoked
            => At(xfer.log, "ready") \cup SentAt("started") # {}]_vars

\* C17, amended: with auto_start the download-state messages come first,
\* then the file is placed and selected and print-start is invoked (once,
\* after the staging), and the `started` message follows the invocation,
\* after every download-state message; no `ready` message is produced.
C17_StartOrder ==
    /\ StartAfterStaging
    /\ [](xfer.start => At(xfer.log, "ready") = {} /\ SentAt("ready") = {})
    /\ [](SentAt("started") # {}
            => /\ At(xfer.log, "start_print") # {}
               /\ Cardinality(SentAt("started")) = 1
               /\ \A i \in SentAt("downloading"), j \in SentAt("started") : i < j)
    /\ [][xfer.start /\ StartInvoked => SentAt("started") = {}]_vars

\* A transfer with auto_start has run to its end without an error: the
\* download-state messages and the `started` message went out and the print
\* was started.
C17_Witness ==
    /\ xfer.start
    /\ xfer.pc = "done"
    /\ xfer.callbacks = <<>>
    /\ At(xfer.log, "start_print") # {}
    /\ At(xfer.log, "error") = {}
    /\ \E i \in SentAt("downloading") : xfer.sent[i].wrote
    /\ \E i \in SentAt("started") : xfer.sent[i].wrote

\* The session cannot write: no connection, or a socket that is closed.
Disconnected ==
    ~connected \/ ws = None \/ ws_protocol = None \/ sock # "open"

\* The messages among the entries of a sequence.
Messages(seq) ==
    Cardinality({i \in DOMAIN seq :
                    seq[i] \in {"downloading", "ready", "error"}})

\* The messages the loop has dealt with.
Dealt ==
    Cardinality({i \in DOMAIN xfer.sent :
                    xfer.sent[i].what \in {"downloading", "ready", "error"}})

\* The loop deals with a message in this step.
Deals == Len(xfer'.sent) = Len(xfer.sent) + 1

---------------------------------------------------------------------------
(* Part VII: the session's timers, printer link and shutdown               *)
(* The session with its timers followed: the printer's events, the webcam *)
(* stream of the remote and close(); and, with the cache followed too, the *)
(* job-info callback, which waits for the printer's data off the loop.     *)

\* _handle_job_info_update up to `await run_in_executor(get_current_data)`:
\* the timer is due on a cache that says printing.
JobInfoBegins ==
    /\ "job_info" \in timers.running
    /\ timers.job_task = "idle"
    /\ cache.state = "printing"
    /\ OnLoop([Cur EXCEPT !.timers.job_task = "awaiting"])

\* _handle_job_info_update from the printer's data on
job_info_resumed(s, fresh) ==
    LET a == [s EXCEPT !.timers.job_task = "idle"]
    IN IF fresh THEN send_sp([a EXCEPT !.cache.job_info = TRUE], "job_info")
       ELSE a

\* The printer's data arrive (fresh: they differ from the cached job info).
JobInfoResumes(fresh) ==
    /\ timers.job_task = "awaiting"
    /\ OnLoop(job_info_resumed(Cur, fresh))

ShutdownInit ==
    /\ SessInit
    /\ timers = [TimersAside EXCEPT !.followed = TRUE]
    /\ TimerInit
    /\ host = NoEvents
    /\ comm = NoRequests
    /\ sys_manager = NoJob
    /\ cam = NoCam
    /\ work = NoWork
    /\ link = NoLink
    /\ ai = NoAi
    /\ remote = NoView
    /\ settings = SettingsAside
    /\ PartsAtRest
    /\ cache \in {[ReportCache EXCEPT !.state = Unknown,
                                      !.display_show_status = d,
                                      !.reconnect = r] :
                    d \in BOOLEAN, r \in BOOLEAN}

ShutdownNext ==
    \/ SessionCore
    \/ CloseCompletes
    \/ pc # "init" /\ DoCloseStart       \* _initialize is the loop's first task
    \/ DoCloseFinish
    \/ PrinterConnected
    \/ PrinterDisconnected
    \/ PrintStart
    \/ PrintPaused
    \/ PrintResumed
    \/ \E job_state \in JobStates : PrintDone(job_state)
    \/ \E d \in {"stream_on", "stream_off"} : ReadMessage(DemandFrame(d))

ShutdownSpec == ShutdownInit /\ [][ShutdownNext]_vars

\* The printer link with the cache followed.
LinkInit ==
    /\ SessInit
    /\ timers = [TimersAside EXCEPT !.followed = TRUE]
    /\ TimerInit
    /\ host = NoEvents
    /\ comm = NoRequests
    /\ sys_manager = NoJob
    /\ cam = NoCam
    /\ work = NoWork
    /\ link = NoLink
    /\ ai = NoAi
    /\ remote = NoView
    /\ settings = SettingsAside
    /\ PartsAtRest
    /\ cache \in {[ReportCache EXCEPT !.reconnect = r] : r \in BOOLEAN}

LinkNext ==
    \/ SessionCore
    \/ PrinterConnected
    \/ PrinterDisconnected
    \/ PrintStart
    \/ JobInfoBegins
    \/ \E fresh \in BOOLEAN : JobInfoResumes(fresh)

LinkSpec == LinkInit /\ [][LinkNext]_vars

---------------------------------------------------------------------------
(* Claims about shutdown and the printer link                              *)

\* The step issues the close of the socket (_do_close reaches ws.close).
CloseIssued == ~is_closing /\ is_closing'

\* C21: when _do_close issues the close of the socket every timer the
\* session owns has been stopped and the shutdown notice has been handed
\* to send_sp, and from then on no timer runs.
C21_TimersStoppedAtClose ==
    /\ [][CloseIssued => timers'.running = {}]_vars
    /\ [][CloseIssued => close_pc = "sending" \/ last_send'.evt = "shutdown"]_vars
    /\ [](is_closing => timers.running = {})

\* C28: the printer-disconnected event leaves the cached state `offline`,
\* temperatures and job info empty and the temperature, job-info, AI and
\* display-reset timers and the webcam stream stopped; and while the
\* printer link is down the job info is empty.
C28_EmptyWhileDisconnected ==
    /\ [][PrinterDisconnected =>
            /\ cache'.state = "offline"
            /\ ~cache'.temps
            /\ ~cache'.job_info
            /\ timers'.running \cap {"temp", "job_info", "ai", "display_reset",
                                     "webcam_stream"} = {}]_vars
    /\ [](~cache.is_connected => ~cache.job_info)

---------------------------------------------------------------------------
(* Part VIII: the worker threads of SimplyPrintFileHandler                 *)
(* Every `file` demand and every `start_print` demand puts a call on the    *)
(* executor (run_in_executor(None, ...)), whose threads run side by side.   *)
(* Here xfer is the handler with its threads, each at a statement of       *)
(* _download_sp_file (from line 194 on: the file is placed) or start_print. *)

MaxWorkers == 2     \* threads of the executor busy at once
MaxFiles == 2       \* files the remote has transferred in a run

Workers == 1..MaxWorkers
Files == 1..MaxFiles

\* `self.pending_file = ""`
NoFile == 0

\* A thread of the executor: its statement, the file it transfers, `start`,
\* its locals `pending`, `selected`/is_current_file and `printing`, whether
\* the printer's start report came while it waited, and the message it
\* handed to the loop last.
IdleWorker ==
    [pc |-> "idle", file |-> NoFile, auto |-> FALSE, pending |-> NoFile,
     current |-> FALSE, printing |-> FALSE, confirmed |-> FALSE, msg |-> ""]

\* __init__: no pending file, both gates set; the printer has nothing
\* selected, was told to start nothing and owes no start report.
GateHandler ==
    [pending_file |-> NoFile, start_event |-> TRUE, analysis_event |-> TRUE,
     threads |-> [t \in Workers |-> IdleWorker],
     selected |-> NoFile, started |-> [f \in Files |-> 0], owed |-> 0,
     transferred |-> 0]

Free(t) == xfer.threads[t].pc \in {"idle", "end"}

At_(t, here) == xfer.threads[t].pc = here

\* The thread goes to its next statement.
goto(x, t, next) == [x EXCEPT !.threads[t].pc = next]

\* return, after add_callback(send_sp, "file_progress", {"state": msg})
return_msg(x, t, msg) == [x EXCEPT !.threads[t].pc = "end", !.threads[t].msg = msg]

\* download_file: the download and the placement of the next file are done
\* by a free thread, which reaches line 194.
FileDemand(t, auto_start) ==
    /\ Free(t)
    /\ xfer.transferred < MaxFiles
    /\ XferStep([xfer EXCEPT !.transferred = @ + 1,
                             !.threads[t] = [IdleWorker EXCEPT
                                                !.pc = "d_clear",
                                                !.file = xfer.transferred + 1,
                                                !.auto = auto_start]])

\* _process_demand ("start_print"): start_print on a free thread.
StartDemand(t) ==
    /\ Free(t)
    /\ XferStep([xfer EXCEPT !.threads[t] = [IdleWorker EXCEPT !.pc = "s_check"]])

\* self.analysis_event.clear()
AnalysisClear(t) ==
    /\ At_(t, "d_clear")
    /\ XferStep([goto(xfer, t, "d_select") EXCEPT !.analysis_event = FALSE])

\* select_file, `selected = is_current_file(...)`; if not selected: the
\* error message, analysis_event.set(), return.
SelectFile(t, selected) ==
    /\ At_(t, "d_select")
    /\ XferStep(IF selected
                THEN [goto(xfer, t, "d_wait") EXCEPT
                         !.selected = xfer.threads[t].file]
                ELSE [return_msg(xfer, t, "error") EXCEPT !.analysis_event = TRUE])

\* self.analysis_event.wait(5.) returns: the gate is set, or 5 s are over.
AnalysisWait(t, timeout) ==
    /\ At_(t, "d_wait")
    /\ timeout \/ xfer.analysis_event
    /\ XferStep(goto(xfer, t, "d_set"))

\* self.analysis_event.set()
AnalysisSet(t) ==
    /\ At_(t, "d_set")
    /\ XferStep([goto(xfer, t, "d_pending") EXCEPT !.analysis_event = TRUE])

\* `self.pending_file = storage_path`, then start_print() or the ready
\* message.
SetPending(t) ==
    /\ At_(t, "d_pending")
    /\ XferStep(LET x == [xfer EXCEPT !.pending_file = xfer.threads[t].file]
                IN IF xfer.threads[t].auto THEN goto(x, t, "s_check")
                   ELSE return_msg(x, t, "ready"))

\* `if not self.pending_file: return False`
CheckPending(t) ==
    /\ At_(t, "s_check")
    /\ XferStep(IF xfer.pending_file = NoFile THEN goto(xfer, t, "end")
                ELSE goto(xfer, t, "s_read"))

\* `pending = self.pending_file`
ReadPending(t) ==
    /\ At_(t, "s_read")
    /\ XferStep([goto(xfer, t, "s_clear") EXCEPT
                    !.threads[t].pending = xfer.pending_file])

\* `self.pending_file = ""`
ClearPending(t) ==
    /\ At_(t, "s_clear")
    /\ XferStep([goto(xfer, t, "s_current") EXCEPT !.pending_file = NoFile])

\* A start_print that starts whatever is pending.
is_current_unchecked(x, t) == x.threads[t].pending # NoFile

\* self.printer.is_current_file(pending, False)
is_current_file(x, t) ==
    x.threads[t].pending # NoFile /\ x.threads[t].pending = x.selected

\* `if not is_current_file(pending): ... "File not selected" ... return False`
CheckCurrent(t) ==
    /\ At_(t, "s_current")
    /\ XferStep(IF is_current_file(xfer, t)
                THEN [goto(xfer, t, "s_event") EXCEPT !.threads[t].current = TRUE]
                ELSE return_msg(xfer, t, "error"))

\* self.start_event.clear()
StartClear(t) ==
    /\ At_(t, "s_event")
    /\ XferStep([goto(xfer, t, "s_start") EXCEPT !.start_event = FALSE])

\* self.printer.start_print(): the printer is told to start (the file the
\* thread took for pending).
PrinterStart(t) ==
    /\ At_(t, "s_start")
    /\ XferStep([goto(xfer, t, "s_wait") EXCEPT
                    !.started[xfer.threads[t].pending] = @ + 1,
                    !.owed = @ + 1])

\* `printing = self.start_event.wait(10.)` returns: the gate is set, or 10 s
\* are over.
StartWait(t, timeout) ==
    /\ At_(t, "s_wait")
    /\ timeout \/ xfer.start_event
    /\ XferStep([goto(xfer, t, "s_set") EXCEPT
                    !.threads[t].printing = xfer.start_event])

\* self.start_event.set(); `if not printing:` the error message; return.
StartSet(t) ==
    /\ At_(t, "s_set")
    /\ XferStep([(IF xfer.threads[t].printing THEN goto(xfer, t, "end")
                  ELSE return_msg(xfer, t, "error"))
                    EXCEPT !.start_event = TRUE])

\* Events.PRINT_STARTED reaches _on_print_start: with a start pending the
\* `started` message is sent and notify_started sets the gate.
NotifyStarted ==
    /\ xfer.owed > 0
    /\ XferStep([xfer EXCEPT
                    !.owed = @ - 1,
                    !.start_event = TRUE,
                    !.threads = [t \in Workers |->
                                    IF xfer.threads[t].pc = "s_wait"
                                    THEN [@[t] EXCEPT !.confirmed = TRUE]
                                    ELSE @[t]]])

\* Events.METADATA_ANALYSIS_FINISHED reaches check_analysis for the file that
\* is selected, with the gate cleared.
CheckAnalysis ==
    /\ ~xfer.analysis_event
    /\ xfer.selected # NoFile
    /\ XferStep([xfer EXCEPT !.analysis_event = TRUE])

\* The user selects another file, or none, at the printer.
UserSelects ==
    /\ xfer.selected # NoFile
    /\ XferStep([xfer EXCEPT !.selected = NoFile])

GateInit ==
    /\ SessInit
    /\ timers = TimersAside
    /\ TimerInit
    /\ host = NoEvents
    /\ comm = NoRequests
    /\ sys_manager = NoJob
    /\ cam = NoCam
    /\ work = NoWork
    /\ link = NoLink
    /\ ai = NoAi
    /\ remote = NoView
    /\ settings = SettingsAside
    /\ cache = [ReportCache EXCEPT !.state = Unknown]
    /\ metric = [group |-> "none", cache |-> EmptyDict, last_received |-> EmptyDict,
                 sample |-> EmptyDict, payload |-> EmptyDict]
    /\ amb = EmptyDict
    /\ xfer = GateHandler

GateNext ==
    \/ \E t \in Workers, auto_start \in BOOLEAN : FileDemand(t, auto_start)
    \/ \E t \in Workers : StartDemand(t)
    \/ \E t \in Workers : AnalysisClear(t)
    \/ \E t \in Workers, selected \in BOOLEAN : SelectFile(t, selected)
    \/ \E t \in Workers, timeout \in BOOLEAN : AnalysisWait(t, timeout)
    \/ \E t \in Workers : AnalysisSet(t)
    \/ \E t \in Workers : SetPending(t)
    \/ \E t \in Workers : CheckPending(t)
    \/ \E t \in Workers : ReadPending(t)
    \/ \E t \in Workers : ClearPending(t)
    \/ \E t \in Workers : CheckCurrent(t)
    \/ \E t \in Workers : StartClear(t)
    \/ \E t \in Workers : PrinterStart(t)
    \/ \E t \in Workers, timeout \in BOOLEAN : StartWait(t, timeout)
    \/ \E t \in Workers : StartSet(t)
    \/ NotifyStarted
    \/ CheckAnalysis
    \/ UserSelects

GateSpec == GateInit /\ [][GateNext]_vars

---------------------------------------------------------------------------
(* Claims about the worker threads                                         *)

\* The threads at one of the statements.
Among(pcs) == {t \in Workers : xfer.threads[t].pc \in pcs}

\* C22: a call of start_print that finds no pending file does nothing; one
\* that finds a pending file clears it, and then tells the printer to start
\* only if the file it took is the selected one at its check; if it is not,
\* the call hands over an error message and ends without a start.
C22_StartOnlyIfSelected ==
    /\ [][\A t \in Workers :
            CheckPending(t) /\ xfer.pending_file = NoFile
                => /\ xfer' = goto(xfer, t, "end")
                   /\ xfer'.threads[t].msg = ""]_vars
    /\ [][\A t \in Workers : ClearPending(t) => xfer'.pending_file = NoFile]_vars
    /\ [][\A t \in Workers :
            CheckCurrent(t) =>
                IF /\ xfer.threads[t].pending # NoFile
                   /\ xfer.threads[t].pending = xfer.selected
                THEN xfer'.threads[t].pc = "s_event"
                ELSE /\ xfer'.threads[t].pc = "end"
                     /\ xfer'.threads[t].msg = "error"
                     /\ xfer'.started = xfer.started]_vars
    /\ [][\A t \in Workers :
            PrinterStart(t) => /\ xfer.threads[t].current
                               /\ xfer.threads[t].pending # NoFile
                               /\ xfer.pending_file # xfer.threads[t].pending]_vars

\* A transfer without auto_start was staged, a start_print demand started
\* it and the start was reported; a second start_print demand found nothing
\* pending and did nothing.
C22_Witness ==
    \E t, u \in Workers :
        /\ xfer.threads[t].pc = "end"
        /\ xfer.threads[t].current
        /\ xfer.threads[t].printing
        /\ xfer.threads[t].msg = ""
        /\ xfer.started[xfer.threads[t].pending] = 1
        /\ xfer.threads[u].pc = "end"
        /\ xfer.threads[u].file = NoFile
        /\ xfer.threads[u].pending = NoFile
        /\ xfer.threads[u].msg = ""
        /\ xfer.pending_file = NoFile

\* C23: a start_print whose start report has not come when its wait ends
\* hands over an error message and leaves start_event set; the staging goes
\* on after the wait for the analysis, with analysis_event set; the signals
\* (notify_started, check_analysis) leave their gate set; and with no thread
\* at work both gates are set.
C23_GatesReturn ==
    /\ [][\A t \in Workers :
            StartSet(t) /\ ~xfer.threads[t].confirmed
                => /\ xfer'.threads[t].msg = "error"
                   /\ xfer'.start_event]_vars
    /\ [][\A t \in Workers : StartSet(t) => xfer'.start_event]_vars
    /\ [][\A t \in Workers : AnalysisSet(t) => xfer'.analysis_event]_vars
    /\ [](\A t \in Workers : xfer.threads[t].pc = "d_wait"
                                => ENABLED AnalysisWait(t, TRUE))
    /\ [](\A t \in Workers : xfer.threads[t].pc = "s_wait"
                                => ENABLED StartWait(t, TRUE))
    /\ [][NotifyStarted => xfer'.start_event]_vars
    /\ [][CheckAnalysis => xfer'.analysis_event]_vars
    /\ [](Among({"idle", "end"}) = Workers
            => xfer.start_event /\ xfer.analysis_event)

\* C24: at most one thread waits on start_event and at most one on
\* analysis_event, and between the clear and the set of a gate there is one
\* thread, that of one transfer.
C24_SingleWaiter ==
    /\ [](Cardinality(Among({"s_wait"})) <= 1)
    /\ [](Cardinality(Among({"d_wait"})) <= 1)
    /\ [](Cardinality(Among({"s_start", "s_wait", "s_set"})) <= 1)
    /\ [](Cardinality(Among({"d_select", "d_wait", "d_set"})) <= 1)

\* C25: the printer is told to start a staged file at most once.
C25_StartedOnce ==
    [](\A f \in Files : xfer.started[f] <= 1)

---------------------------------------------------------------------------
(* Part IX: the host's events around _initialize                           *)
(*                                                                         *)
(* on_event runs on the host's event thread, _initialize on the session's  *)
(* thread.  The events are numbered in the order of their arrival; only    *)
(* those that on_event hands on are counted.                               *)

MaxEvents == 3      \* events the host fires in a run

\* on_event up to the choice of add_callback (hasattr(self, "_loop"))
OnEvent ==
    /\ host.pc = "idle"
    /\ host.arrived < MaxEvents
    /\ host' = [host EXCEPT !.pc = "chosen",
                            !.arrived = @ + 1,
                            !.ev = host.arrived + 1,
                            !.via = IF host.has_loop THEN "loop" ELSE "queue"]
    /\ UNCHANGED <<sessVars, timerVars, metric, amb, xfer, extVars>>

\* add_callback(...) with self._loop.add_callback
AddCallback ==
    /\ host.pc = "chosen"
    /\ host.via = "loop"
    /\ host' = [host EXCEPT !.pc = "idle", !.loopq = Append(@, host.ev)]
    /\ UNCHANGED <<sessVars, timerVars, metric, amb, xfer, extVars>>

\* _queue_event: self.cached_events is read ...
QueueLoad ==
    /\ host.pc = "chosen"
    /\ host.via = "queue"
    /\ host' = [host EXCEPT !.pc = "loaded", !.ref = host.current]
    /\ UNCHANGED <<sessVars, timerVars, metric, amb, xfer, extVars>>

\* ... and the event is appended to that list.
QueueAppend ==
    /\ host.pc = "loaded"
    /\ host' = [host EXCEPT !.pc = "idle",
                            !.old = IF host.ref = "old" THEN Append(@, host.ev) ELSE @,
                            !.new = IF host.ref = "new" THEN Append(@, host.ev) ELSE @]
    /\ UNCHANGED <<sessVars, timerVars, metric, amb, xfer, extVars>>

\* self._loop = IOLoop.current()
SetLoop ==
    /\ host.init_pc = "start"
    /\ host' = [host EXCEPT !.init_pc = "replay", !.has_loop = TRUE]
    /\ UNCHANGED <<sessVars, timerVars, metric, amb, xfer, extVars>>

\* for (func, args) in self.cached_events: func(*args) -- one turn
Replay ==
    /\ host.init_pc = "replay"
    /\ host.idx < Len(host.old)
    /\ host' = [host EXCEPT !.idx = @ + 1,
                            !.processed = Append(@, host.old[host.idx + 1])]
    /\ UNCHANGED <<sessVars, timerVars, metric, amb, xfer, extVars>>

\* the iteration finds the list exhausted
ReplayEnds ==
    /\ host.init_pc = "replay"
    /\ host.idx >= Len(host.old)
    /\ host' = [host EXCEPT !.init_pc = "clear"]
    /\ UNCHANGED <<sessVars, timerVars, metric, amb, xfer, extVars>>

\* self.cached_events = []
ClearCached ==
    /\ host.init_pc = "clear"
    /\ host' = [host EXCEPT !.init_pc = "done", !.current = "new"]
    /\ UNCHANGED <<sessVars, timerVars, metric, amb, xfer, extVars>>

\* The loop runs its next callback, once _initialize awaits.
LoopRuns ==
    /\ host.init_pc = "done"
    /\ host.loopq # <<>>
    /\ host' = [host EXCEPT !.loopq = Tail(@),
                            !.processed = Append(@, Head(host.loopq))]
    /\ UNCHANGED <<sessVars, timerVars, metric, amb, xfer, extVars>>

QueueInit ==
    /\ SessInit
    /\ timers = TimersAside
    /\ TimerInit
    /\ host = NoEvents
    /\ comm = NoRequests
    /\ sys_manager = NoJob
    /\ cam = NoCam
    /\ work = NoWork
    /\ link = NoLink
    /\ ai = NoAi
    /\ remote = NoView
    /\ settings = SettingsAside
    /\ PartsAtRest
    /\ cache = [ReportCache EXCEPT !.state = Unknown]

QueueNext ==
    \/ OnEvent
    \/ AddCallback
    \/ QueueLoad
    \/ QueueAppend
    \/ SetLoop
    \/ Replay
    \/ ReplayEnds
    \/ ClearCached
    \/ LoopRuns

QueueSpec == QueueInit /\ [][QueueNext]_vars

\* Nothing is under way: the event thread is idle, _initialize is past its
\* replay and the loop has run its callbacks.
Settled ==
    /\ host.pc = "idle"
    /\ host.init_pc = "done"
    /\ host.loopq = <<>>

\* C26: the events are processed in the order of their arrival, none twice,
\* and when nothing is under way every event that arrived has been processed.
C26_EventsInOrder ==
    /\ [](\A i, j \in 1..Len(host.processed) :
            i < j => host.processed[i] < host.processed[j])
    /\ [](Settled => host.processed = [i \in 1..host.arrived |-> i])

---------------------------------------------------------------------------
(* Part X: the printer behind the host, its events and the cached state    *)
(*                                                                         *)
(* The printer changes its state on its own account (the operator at the   *)
(* host) or on a call of the plugin; the host fires the events of the      *)
(* change, on_event queues their handlers on the loop, and the loop runs   *)
(* them one by one.  A pause, resume or cancel call that finds no job to   *)
(* act on changes nothing and fires nothing.                               *)

MaxPending == 2     \* handlers waiting in the loop's queue
MaxBuffered == 2    \* job events buffered before the printer moves on

FirmwareErrors == {"", "err"}

\* The printer has a job.
InJob == {"printing", "pausing", "paused", "resuming", "cancelling"}

Transitional == {"pausing", "resuming", "cancelling"}

HostEvent(name, arg) == [ev |-> name, arg |-> arg]

\* The printer goes to `st` and the host fires `evts`.
PrinterMoves(from, st, evts) ==
    /\ pc # "init"
    /\ host.printer \in from
    /\ Len(host.loopq) + Len(evts) <= MaxPending
    /\ Len(missed_job_events) < MaxBuffered
    /\ host' = [host EXCEPT !.printer = st, !.loopq = @ \o evts]
    /\ UNCHANGED <<sessVars, timerVars, metric, amb, xfer, extVars>>

PrinterConnects ==
    PrinterMoves({"offline"}, "operational", <<HostEvent("connected", "")>>)

PrinterDisconnects ==
    PrinterMoves(InJob \cup {"operational"}, "offline",
                 <<HostEvent("disconnected", "")>>)

PrinterStarts_ ==
    PrinterMoves({"operational"}, "printing",
                 <<HostEvent("state", "printing"), HostEvent("print_started", "")>>)

PrinterPauses ==
    PrinterMoves({"printing"}, "pausing", <<HostEvent("state", "pausing")>>)

PrinterPaused ==
    PrinterMoves({"pausing"}, "paused", <<HostEvent("print_paused", "")>>)

PrinterResumes ==
    PrinterMoves({"paused"}, "resuming", <<HostEvent("state", "resuming")>>)

PrinterResumed ==
    PrinterMoves({"resuming"}, "printing",
                 <<HostEvent("state", "printing"), HostEvent("print_resumed", "")>>)

PrinterCancels(msg) ==
    PrinterMoves({"printing", "paused"}, "cancelling",
                 <<HostEvent("cancelling", msg)>>)

PrinterCancelled ==
    PrinterMoves({"cancelling"}, "operational",
                 <<HostEvent("state", "operational")>>)

PrinterFinishes ==
    PrinterMoves({"printing"}, "operational",
                 <<HostEvent("print_done", "finished"),
                   HostEvent("state", "operational")>>)

\* printer.is_printing() / printer.is_operational() as _on_printer_connected
\* and _initialize read them
PrinterNow ==
    CASE host.printer = "offline" -> "offline"
      [] host.printer = "printing" -> "printing"
      [] OTHER -> "operational"

\* The handler on_event queued for the event.
dispatch(s, e) ==
    CASE e.ev = "connected" -> on_printer_connected(s, PrinterNow)
      [] e.ev = "disconnected" -> on_printer_disconnected(s)
      [] e.ev = "state" -> on_state_event(s, e.arg)
      [] e.ev = "print_started" -> on_print_start(s)
      [] e.ev = "print_paused" -> on_print_paused(s)
      [] e.ev = "print_resumed" -> on_print_resumed(s)
      [] e.ev = "print_done" -> on_print_done(s, e.arg)
      [] OTHER -> on_cancelling_event(s, e.arg)

\* The loop runs the next handler.
HandleEvent ==
    /\ host.loopq # <<>>
    /\ LoopAlive
    /\ pc # "init"
    /\ Commit(dispatch(Cur, Head(host.loopq)))
    /\ host' = [host EXCEPT !.loopq = Tail(@)]
    /\ UNCHANGED <<ws, ws_protocol, is_closing, pc, close_pc, sock, inq, attempt>>
    /\ UNCHANGED <<timerVars, metric, amb, xfer, extVars>>

PrintControl == {"pause", "resume", "cancel"}

TransitInit ==
    /\ SessInit
    /\ timers = TimersAside
    /\ TimerInit
    /\ PartsAtRest
    /\ cache = ReportCache
    /\ settings = SettingsAside
    /\ host \in {[NoEvents EXCEPT !.printer = st, !.has_loop = TRUE,
                                  !.init_pc = "done"] : st \in PrinterAtStart}
    /\ remote = NoView
    /\ ai = NoAi
    /\ link = NoLink
    /\ work = NoWork
    /\ cam = NoCam
    /\ sys_manager = NoJob
    /\ comm = NoRequests

TransitNext ==
    \/ Initialize(PrinterNow)
    \/ ConnectOk
    \/ RemoteSend
    \/ \E f \in AckFrames : ReadMessage(f)
    \/ \E d \in PrintControl : ReadMessage(DemandFrame(d))
    \/ PrinterConnects
    \/ PrinterDisconnects
    \/ PrinterStarts_
    \/ PrinterPauses
    \/ PrinterPaused
    \/ PrinterResumes
    \/ PrinterResumed
    \/ \E msg \in FirmwareErrors : PrinterCancels(msg)
    \/ PrinterCancelled
    \/ PrinterFinishes
    \/ HandleEvent

TransitSpec == TransitInit /\ [][TransitNext]_vars

\* C27: once the loop has handled the host's events, the cached state is
\* pausing, resuming or cancelling only if the printer has a job.
C27_TransitionalInJob ==
    [](host.loopq = <<>> /\ cache.state \in Transitional
            => host.printer \in InJob)

\* The calls of send_sp in `o` that announce a lifecycle state.
StateChanges(o) == {i \in DOMAIN o : o[i].evt = "state_change"}

\* The calls of send_sp in `o` that report a cancelled job.
CancelledSends(o) ==
    {i \in DOMAIN o : o[i].evt = "job_info" /\ o[i].data.job = "cancelled"}

\* The step is a handler that takes the cached state out of "cancelling".
LeavesCancelling ==
    /\ cache.state = "cancelling"
    /\ cache'.state # "cancelling"

\* The handler of the step reported one cancelled job, before any
\* state_change: by send_sp if the session was connected, else in the buffer
\* (followed there by what the handler buffers after it).
OneCancelled ==
    IF connected
    THEN /\ Cardinality(CancelledSends(outbox')) = 1
         /\ \A i \in CancelledSends(outbox'), j \in StateChanges(outbox') : i < j
         /\ missed_job_events' = missed_job_events
    ELSE /\ CancelledSends(outbox') = {}
         /\ \E rest \in {<<>>} \cup {<<[job |-> k, delay |-> now]>> :
                                        k \in {"started"} \cup JobStates} :
                missed_job_events' =
                    LastOf(missed_job_events
                             \o <<[job |-> "cancelled", delay |-> now]>> \o rest,
                           MaxMissed)

\* A handler of a printer event or of a print-control demand ran.
EventOrDemand ==
    \/ HandleEvent
    \/ \E d \in PrintControl : ReadMessage(DemandFrame(d))

\* The part of C29 about the cancelled job: leaving "cancelling" reports one
\* cancelled job with the stored firmware error before the state_change of
\* the new state, and the stored error is empty outside "cancelling".
CancelledReported ==
    /\ [][LeavesCancelling =>
            /\ OneCancelled
            /\ cache'.job_error = cache.firmware_error
            /\ cache'.firmware_error = ""
            /\ \E j \in StateChanges(outbox') :
                    outbox'[j].data.new = cache'.state]_vars
    /\ [](cache.firmware_error # "" => cache.state = "cancelling")

\* C29 as stated: the cancelled job is reported as above, and whatever
\* handler ran, a state_change was sent only if the cached state changed.
C29_ChangeOnly ==
    /\ CancelledReported
    /\ [][(EventOrDemand \/ \E f \in AckFrames : ReadMessage(f))
            /\ StateChanges(outbox') # {}
                => cache'.state # cache.state]_vars

\* C29, amended: the cancelled job is reported as above, and a handler of a
\* printer event or of a demand sends a state_change only if the cached
\* state changed, one for the new state (the push after a `connected` ack
\* announces the cached state as it is).
C29_CancelledOnLeave ==
    /\ CancelledReported
    /\ [][EventOrDemand /\ StateChanges(outbox') # {}
            => /\ cache'.state # cache.state
               /\ Cardinality(StateChanges(outbox')) = 1
               /\ \A j \in StateChanges(outbox') :
                    outbox'[j].data.new = cache'.state]_vars
    /\ [][EventOrDemand /\ cache'.state # cache.state
            => StateChanges(outbox') # {}]_vars

\* The printer cancelled a job with a firmware error and went back to
\* operational: the handler of that state event has just reported the
\* cancelled job with the error and then the state.
C29_Witness ==
    /\ cache.state = "operational"
    /\ cache.job_error = "err"
    /\ cache.firmware_error = ""
    /\ connected
    /\ Cardinality(CancelledSends(outbox)) = 1
    /\ \E j \in StateChanges(outbox) : outbox[j].data.new = "operational"

---------------------------------------------------------------------------
(* Part XI: setup mode and the persisted identity                          *)

\* What self.settings holds at start: a claimed printer has its id and
\* name, an unclaimed one the short id of its pairing.
PersistedSettings ==
    IF is_set_up
    THEN [followed |-> TRUE, printer_id |-> "id0", printer_name |-> "name0",
          temp_short_setup_id |-> ""]
    ELSE [followed |-> TRUE, printer_id |-> "", printer_name |-> "",
          temp_short_setup_id |-> "sid0"]

\* `connected` acks with and without in_setup, name and short_id;
\* complete_setup with and without data and printer_id; new_token with a
\* token, with and without short_id.
SetupFrames ==
    {[Frame("connected", "map") EXCEPT !.in_setup = i, !.name = n, !.short_id = k] :
        i \in {0, 1}, n \in BOOLEAN, k \in BOOLEAN}
    \cup {Frame("complete_setup", "None")}
    \cup {[Frame("complete_setup", "map") EXCEPT !.printer_id = b] : b \in BOOLEAN}
    \cup {[Frame("new_token", "map") EXCEPT !.token = TRUE, !.no_exist = n,
                                            !.short_id = k] :
            n \in BOOLEAN, k \in BOOLEAN}

SetupInit ==
    /\ SessInit
    /\ timers = TimersAside
    /\ TimerInit
    /\ host = NoEvents
    /\ comm = NoRequests
    /\ sys_manager = NoJob
    /\ cam = NoCam
    /\ work = NoWork
    /\ link = NoLink
    /\ ai = NoAi
    /\ remote = NoView
    /\ PartsAtRest
    /\ cache = ReportCache
    /\ settings = PersistedSettings

SetupNext ==
    \/ SessionCore
    \/ \E f \in SetupFrames : ReadMessage(f)
    \/ \E what \in Samples : Sample(what)
    \/ PrinterConnected
    \/ PrintStart

SetupSpec == SetupInit /\ [][SetupNext]_vars

InSetupAcks == {f \in SetupFrames : f.type = "connected" /\ f.in_setup = 1}

SetupCompletions == {f \in SetupFrames : f.type = "complete_setup" /\ f.data = "map"}

\* The last handler wrote nothing but allowlisted events.
OnlyAllowlisted ==
    \A i \in DOMAIN outbox : outbox[i].wrote => outbox[i].evt \in PRE_SETUP_EVENTS

\* C30: a `connected` ack with in_setup = 1 leaves is_set_up false, the
\* persisted printer id and name empty and the short id stored if supplied;
\* while is_set_up is false only allowlisted events are written, and only a
\* complete_setup packet ends that; after it is_set_up is true, the supplied
\* printer id is persisted and the short id is empty.
C30_SetupMode ==
    /\ [][\A f \in InSetupAcks :
            ReadMessage(f) =>
                /\ ~is_set_up'
                /\ settings'.printer_id = ""
                /\ settings'.printer_name = ""
                /\ f.short_id => settings'.temp_short_setup_id = "sid"]_vars
    /\ [](~is_set_up => OnlyAllowlisted)
    /\ [][~is_set_up /\ is_set_up' => \E f \in SetupCompletions : ReadMessage(f)]_vars
    /\ [][\A f \in SetupCompletions :
            ReadMessage(f) =>
                /\ is_set_up'
                /\ f.printer_id => settings'.printer_id = "id1"
                /\ settings'.temp_short_setup_id = ""]_vars

---------------------------------------------------------------------------
(* Part XII: what the remote has been sent of the cache                    *)
(*                                                                         *)
(* The handlers of the samples and of the tool change write the cache and  *)
(* then call send_sp; remote records, for the temperatures, the cpu stats  *)
(* and the active tool, whether what the cache holds went out on the       *)
(* socket.                                                                 *)
---------------------------------------------------------------------------

Tools == {"T0", "T1"}

\* An event of one of the names was written to the socket by the handler.
Wrote(s, names) ==
    \E i \in 1..Len(s.sent) : s.sent[i].wrote /\ s.sent[i].evt \in names

\* The remote's view after a handler that ended in s; sampled are the groups
\* of which the handler stored a new sample in the cache.
Viewed(v, s, sampled) ==
    [v EXCEPT !.tool = IF Wrote(s, {"tool"}) THEN s.cache.active_extruder ELSE @,
              !.temps = IF Wrote(s, {"temps"}) THEN TRUE
                        ELSE IF "temps" \in sampled THEN FALSE ELSE @,
              !.cpu = IF Wrote(s, {"cpu", "cpu_info"}) THEN TRUE
                      ELSE IF "cpu" \in sampled THEN FALSE ELSE @]

ViewFrames ==
    AckFrames \cup {[Frame("complete_setup", "map") EXCEPT !.printer_id = TRUE]}

\* _read_messages -> _process_message, seen from the remote.
ViewRead(f) ==
    /\ pc = "reading"
    /\ inq > 0
    /\ inq' = inq - 1
    /\ LET s == process_message(Cur, f)
       IN /\ Commit(s)
          /\ pc' = IF s.raised THEN "crashed" ELSE "reading"
          /\ remote' = [Viewed(remote, s, {}) EXCEPT
                !.completed = s.is_set_up /\ (@ \/ (f.type = "complete_setup" /\ connected))]
    /\ UNCHANGED <<ws, ws_protocol, is_closing, close_pc, sock, attempt>>
    /\ UNCHANGED <<timerVars, metric, amb, xfer, host, ai, link, work, cam, sys_manager, comm>>

\* _handle_temperature_update, _handle_cpu_update with a sample that differs
\* from the cache.
ViewSample(what) ==
    /\ what = "temps" => cache.is_connected
    /\ LoopAlive
    /\ pc # "init"
    /\ LET s == Sampled(Cur, what)
       IN /\ Commit(s)
          /\ remote' = Viewed(remote, s, {what})
    /\ UNCHANGED <<ws, ws_protocol, is_closing, pc, close_pc, sock, inq, attempt>>
    /\ UNCHANGED <<timerVars, metric, amb, xfer, host, ai, link, work, cam, sys_manager, comm>>

\* Events.TOOL_CHANGE -> _send_active_extruder.
ViewTool(tool) ==
    /\ cache.is_connected
    /\ LoopAlive
    /\ pc # "init"
    /\ LET s == send_active_extruder(Cur, tool)
       IN /\ Commit(s)
          /\ remote' = Viewed(remote, s, {})
    /\ UNCHANGED <<ws, ws_protocol, is_closing, pc, close_pc, sock, inq, attempt>>
    /\ UNCHANGED <<timerVars, metric, amb, xfer, host, ai, link, work, cam, sys_manager, comm>>

ViewNext ==
    \/ \E st \in PrinterAtStart : Initialize(st)
    \/ ConnectOk
    \/ RemoteSend
    \/ \E f \in ViewFrames : ViewRead(f)
    \/ \E what \in {"temps", "cpu"} : ViewSample(what)
    \/ \E tool \in Tools : ViewTool(tool)

ViewSpec == ReportInit /\ [][ViewNext]_vars

\* A frame is taken from the socket: in ViewSpec, the steps of ViewRead.
FrameTaken ==
    /\ pc = "reading"
    /\ inq > 0
    /\ inq' = inq - 1

\* The loop runs _initialize, the connect attempt and the reading of every
\* frame that arrived.  Nothing is assumed of the remote or of the printer:
\* a sample equal to the cache makes its handler send nothing, which is a
\* stuttering step.
ViewFairness ==
    /\ WF_vars(\E st \in PrinterAtStart : Initialize(st))
    /\ WF_vars(ConnectOk)
    /\ WF_inq(FrameTaken)

FairViewSpec == ViewSpec /\ ViewFairness

InSync ==
    /\ remote.tool = cache.active_extruder
    /\ remote.temps
    /\ remote.cpu

\* C31: once complete_setup was handled on a connected session, the remote's
\* view of the temperatures, the active tool and the cpu stats eventually
\* equals the cache (no reconnect happens in ViewSpec).
C31_DeliveredAfterSetup == remote.completed ~> InSync

\* The send_sp calls of a handler, among box, with one of the names.
Handed(box, names) == Len(SelectSeq(box, LAMBDA x : x.evt \in names))

\* C32: on every `connected` ack of a session that is set up, what the cache
\* holds of each sampled group goes out with the push: the temperatures
\* once, the cpu stats once, and the job progress with a job_info event.
C32_FullPayloadsOnAck ==
    [][\A f \in AckFrames :
          ReadMessage(f) /\ is_set_up' =>
              /\ cache.temps => Handed(outbox', {"temps"}) = 1
              /\ cache.cpu_info => Handed(outbox', {"cpu", "cpu_info"}) = 1
              /\ cache.job_info => Handed(outbox', {"job_info"}) >= 1]_vars

---------------------------------------------------------------------------
(* Part XIII: the AI snapshot timer                                        *)
(*                                                                         *)
(* ai_timer is a FlexTimer with _handle_ai_snapshot as its callback.  The  *)
(* clock counts seconds; pending holds the call times of the handles that  *)
(* were scheduled and not cancelled.                                       *)
---------------------------------------------------------------------------

MaxClock == 150     \* the clock stops after this many seconds
ClockStep == 30     \* seconds the clock advances in a step
MaxFailed == 2      \* snapshot requests that fail in a run
AiGrace == 120      \* seconds after the print start before the first snapshot
AiIntervals == {30000, 90000}   \* pushed "ai" intervals, milliseconds

\* FlexTimer.start(delay) and FlexTimer.stop() of ai_timer.
ai_timer_start(a, delay) ==
    IF a.running THEN a
    ELSE [a EXCEPT !.running = TRUE, !.timer_handle = a.clock + delay,
                   !.pending = @ \cup {a.clock + delay}]

ai_timer_stop(a) ==
    IF ~a.running THEN a
    ELSE [a EXCEPT !.running = FALSE, !.timer_handle = NoTime,
                   !.pending = @ \ {a.timer_handle}]

\* A handler that runs on the loop and moves the AI timer.
AiStep(s, a) ==
    /\ LoopAlive
    /\ pc # "init"
    /\ Commit(s)
    /\ ai' = a
    /\ UNCHANGED <<ws, ws_protocol, is_closing, pc, close_pc, sock, inq, attempt>>
    /\ UNCHANGED <<timerVars, metric, amb, xfer, host, remote, link, work, cam, sys_manager, comm>>

\* _on_print_start: the not-before time is set and the timer started.  One
\* print is followed, which starts and ends while the session is connected.
AiPrintStart ==
    /\ cache.is_connected
    /\ ~cache.job_info
    /\ connected
    /\ ai.not_before = NoTime
    /\ AiStep(on_print_start(Cur),
              ai_timer_start([ai EXCEPT !.not_before = ai.clock + AiGrace],
                             AiGrace))

\* _on_print_done
AiPrintDone(job_state) ==
    /\ cache.job_info
    /\ connected
    /\ AiStep(on_print_done(Cur, job_state), ai_timer_stop(ai))

\* The delay _set_intervals gives the restarted timer.
restart_delay(a) ==
    IF a.clock > a.not_before THEN 0
    ELSE AiGrace - (a.not_before - a.clock)

\* _set_intervals with {"ai": val}; the printer is printing when the cached
\* state says so.
set_ai_interval(a, val, printing) ==
    LET stored == [a EXCEPT !.interval = val \div 1000]
    IN IF val \div 1000 < a.interval /\ printing
       THEN ai_timer_start(ai_timer_stop(stored), restart_delay(a))
       ELSE stored

\* _process_message "interval_change" with {"ai": val}.  ai_timer_not_before
\* is an attribute only once a print has started: reading it before raises.
AiIntervalChange(val) ==
    /\ pc = "reading"
    /\ inq > 0
    /\ inq' = inq - 1
    /\ LET printing == cache.state = "printing"
           raises == /\ val \div 1000 < ai.interval
                     /\ printing
                     /\ ai.not_before = NoTime
           f == [Frame("interval_change", "map") EXCEPT !.interval = "ok"]
           s == IF raises THEN Raise(Cur) ELSE process_message(Cur, f)
       IN /\ Commit(s)
          /\ pc' = IF s.raised THEN "crashed" ELSE "reading"
          /\ ai' = IF raises THEN [ai EXCEPT !.interval = val \div 1000]
                   ELSE set_ai_interval(ai, val, printing)
    /\ UNCHANGED <<ws, ws_protocol, is_closing, close_pc, sock, attempt>>
    /\ UNCHANGED <<timerVars, metric, amb, xfer, host, remote, link, work, cam, sys_manager, comm>>

\* Time passes; a handle that is due runs first.
AiTick ==
    /\ ai.clock < MaxClock
    /\ \A t \in ai.pending : t > ai.clock
    /\ ai' = [ai EXCEPT !.clock = @ + ClockStep]
    /\ UNCHANGED <<sessVars, timerVars, metric, amb, xfer, host, remote, link, work, cam, sys_manager, comm>>

\* _schedule_task and _call_wrapper up to the callback's first await; one
\* snapshot is taken at a time.
ai_wake(a, t, webcam_connected) ==
    LET b == [a EXCEPT !.timer_handle = NoTime, !.pending = @ \ {t}]
    IN IF ~b.running THEN b
       ELSE IF b.interval > 0 /\ webcam_connected
       THEN [b EXCEPT !.busy = TRUE, !.eventtime = b.clock,
                      !.ai_interval = b.interval]
       ELSE IF b.interval = 0 THEN [b EXCEPT !.running = FALSE]
       ELSE [b EXCEPT !.timer_handle = b.clock + b.interval,
                      !.pending = @ \cup {b.clock + b.interval}]

AiWake(webcam_connected) ==
    /\ ~ai.busy
    /\ \E t \in ai.pending :
          /\ t <= ai.clock
          /\ AiStep(Cur, ai_wake(ai, t, webcam_connected))

\* The delay _handle_ai_snapshot asks for after a failed request.
backoff(a) ==
    IF a.failed_ai_attempts <= 10
    THEN a.ai_interval + a.failed_ai_attempts * 5
    ELSE 120

\* _handle_ai_snapshot from the answer of the request on, and the end of
\* _call_wrapper.  On success the handler assigns 0 to failed_ai_attempt,
\* another attribute than the counter failed_ai_attempts.
ai_snapshot_ends(a, ok) ==
    LET b == IF ok THEN a
             ELSE LET c == [a EXCEPT !.failed_ai_attempts = @ + 1]
                  IN ai_timer_start(c, backoff(c))
        d == [ai_timer_start(b, a.ai_interval)
                 EXCEPT !.busy = FALSE, !.eventtime = NoTime, !.ai_interval = 0]
        ret == a.eventtime + a.ai_interval
    IN IF d.running
       THEN [d EXCEPT !.timer_handle = ret, !.pending = @ \cup {ret}]
       ELSE d

AiSnapshotEnds(ok) ==
    /\ ai.busy
    /\ ~ok => ai.failed_ai_attempts < MaxFailed
    /\ AiStep(IF ok THEN send_sp(Cur, "ai_resp") ELSE Cur,
              ai_snapshot_ends(ai, ok))

AiNext ==
    \/ \E st \in PrinterAtStart : Initialize(st)
    \/ ConnectOk
    \/ RemoteSend
    \/ \E f \in AckFrames : ReadMessage(f)
    \/ AiPrintStart
    \/ \E job_state \in JobStates : AiPrintDone(job_state)
    \/ \E val \in AiIntervals : AiIntervalChange(val)
    \/ AiTick
    \/ \E webcam_connected \in BOOLEAN : AiWake(webcam_connected)
    \/ \E ok \in BOOLEAN : AiSnapshotEnds(ok)

AiSpec == ReportInit /\ [][AiNext]_vars

\* The pushed interval is smaller than the current one while a print that
\* was seen to start is active.
AiShrinks(val) ==
    /\ val \div 1000 < ai.interval
    /\ cache.state = "printing"
    /\ ai.not_before # NoTime

\* C33: a pushed interval of val milliseconds is stored as val / 1000
\* seconds; if it is smaller than the current AI interval while a print is
\* active, the AI timer is rescheduled in the same step, its wake is not
\* earlier than the not-before time, and it is due at once if that time has
\* passed.
C33_IntervalChange ==
    [][\A val \in AiIntervals :
          AiIntervalChange(val) =>
              /\ ai'.interval = val \div 1000
              /\ AiShrinks(val) =>
                    /\ ai'.running
                    /\ ai'.timer_handle \in ai'.pending
                    /\ ai'.timer_handle >= ai.not_before
                    /\ ai.clock > ai.not_before => ai'.timer_handle = ai.clock]_vars

\* The delay the spec gives the attempt after the k-th consecutive failure.
Backoff(k, ai_interval) == IF k <= 10 THEN ai_interval + 5 * k ELSE 120

\* C34: after a failed snapshot request, the k-th in a row, the timer (if it
\* still runs) wakes Backoff(k) seconds after the failure, or after the
\* time the attempt began; a successful request leaves the count at 0.
C34_RetryBackoff ==
    /\ [][AiSnapshotEnds(FALSE) /\ ai'.running =>
            LET d == Backoff(ai'.failed_ai_attempts, ai.ai_interval)
            IN ai'.timer_handle \in {ai.clock + d, ai.eventtime + d}]_vars
    /\ [][AiSnapshotEnds(TRUE) => ai'.failed_ai_attempts = 0]_vars

---------------------------------------------------------------------------
(* The cadence of the ambient readings                                     *)

\* The firing took the reading that becomes the initial sample.
TookFirst == amb.initial_sample = NoSample /\ amb'.initial_sample # NoSample

\* The firing, with an initial sample at hand and the heater idle, took a
\* second reading: it settled the ambient or replaced the initial sample.
TookSecond(rd) ==
    /\ amb.initial_sample # NoSample
    /\ rd.present
    /\ rd.target = 0
    /\ amb'.initial_sample # amb.initial_sample

\* C35: a reading is taken only once the current interval has elapsed since
\* the last sample; the first reading sets the interval to 20 s and the
\* second is taken no sooner than 20 s after it; a nonzero target resets
\* the sampling and sets the interval to an hour from that firing.
C35_AmbientCadence ==
    [][\A rd \in AmbReadings :
          DetectTimer(rd) =>
              /\ TookFirst \/ TookSecond(rd) => amb.elapsed >= amb.update_interval
              /\ TookFirst => amb'.update_interval = SAMPLE_CHECK_TIME
              /\ TookSecond(rd) => amb.since_first >= SAMPLE_CHECK_TIME
              /\ rd.present /\ rd.target # 0 =>
                    /\ amb'.initial_sample = NoSample
                    /\ amb'.update_interval = TARGET_CHECK_TIME
                    /\ amb'.elapsed = CHECK_INTERVAL]_vars

---------------------------------------------------------------------------
(* Part XIV: the connects asked of the printer                             *)
(*                                                                         *)
(* link.state is the state of the host's printer link, link.rt the         *)
(* interval intervals["reconnect"] in seconds.  History: last_connect is   *)
(* the time of the last call of printer.connect, gap the seconds between   *)
(* the last two calls and from the state of the link at the last call.     *)
(* The reconnect timer first fires 2 s after its start, which is before    *)
(* the clock's next step.                                                  *)
---------------------------------------------------------------------------

ReconnectIntervals == {30, 60}
ClosedOrError == {"CLOSED", "ERROR"}

\* printer.connect() is called.
connect(l) ==
    [l EXCEPT !.gap = IF l.last_connect = NoTime THEN NoTime
                      ELSE l.clock - l.last_connect,
              !.last_connect = l.clock, !.from = l.state,
              !.state = "CONNECTING"]

\* A handler that runs on the loop and may call the printer; a reconnect
\* timer that is stopped has no firing ahead.
LinkStep(s, l) ==
    /\ LoopAlive
    /\ pc # "init"
    /\ Commit(s)
    /\ link' = IF "printer_reconnect" \in s.timers.running THEN l
               ELSE [l EXCEPT !.next_tick = NoTime]
    /\ UNCHANGED <<ws, ws_protocol, is_closing, close_pc, sock, attempt>>
    /\ UNCHANGED <<timerVars, metric, amb, xfer, host, remote, ai, work, cam, sys_manager, comm>>

\* _process_demand "connect_printer"
ConnectDemand ==
    /\ pc = "reading"
    /\ inq > 0
    /\ inq' = inq - 1
    /\ LET s == process_message(Cur, DemandFrame("connect_printer"))
       IN /\ LinkStep(s, IF link.state \in ClosedOrError THEN connect(link)
                         ELSE link)
          /\ pc' = IF s.raised THEN "crashed" ELSE "reading"

\* _handle_printer_reconnect, and the next firing _call_wrapper schedules.
handle_printer_reconnect(s, l) ==
    IF l.rt = 0 \/ l.state = "OPERATIONAL"
    THEN timers_stop(s, {"printer_reconnect"})
    ELSE s

ReconnectTick ==
    /\ "printer_reconnect" \in timers.running
    /\ link.next_tick # NoTime
    /\ link.next_tick <= link.clock
    /\ LET l == IF link.rt # 0 /\ link.state \notin {"OPERATIONAL", "CONNECTING"}
                THEN connect(link) ELSE link
       IN LinkStep(handle_printer_reconnect(Cur, link),
                   [l EXCEPT !.next_tick = link.clock + link.rt])
    /\ UNCHANGED <<pc, inq>>

\* The link answers a connect: the printer is found (the host fires the
\* connected event) or the link ends closed or in error.
PrinterAnswers(st) ==
    /\ link.state = "CONNECTING"
    /\ LinkStep(IF st = "OPERATIONAL" THEN on_printer_connected(Cur, "operational")
                ELSE Cur,
                [link EXCEPT !.state = st])
    /\ UNCHANGED <<pc, inq>>

\* The printer drops off: the host fires the disconnected event.
PrinterDrops(st) ==
    /\ link.state = "OPERATIONAL"
    /\ LinkStep(on_printer_disconnected(Cur), [link EXCEPT !.state = st])
    /\ UNCHANGED <<pc, inq>>

\* Time passes; a firing that is due runs first, and a reconnect timer that
\* was started has its first firing due.
LinkTick ==
    /\ link.clock < MaxClock
    /\ link.next_tick # NoTime => link.next_tick > link.clock
    /\ link' = [link EXCEPT !.clock = @ + ClockStep,
                            !.next_tick =
                                IF @ = NoTime /\ "printer_reconnect" \in timers.running
                                THEN link.clock + ClockStep ELSE @]
    /\ UNCHANGED <<sessVars, timerVars, metric, amb, xfer, host, remote, ai, work, cam, sys_manager, comm>>

\* The remote pushed the reconnect interval rt, or none, before.
ConnInit ==
    /\ SessInit
    /\ timers = [TimersAside EXCEPT !.followed = TRUE]
    /\ TimerInit
    /\ host = NoEvents
    /\ comm = NoRequests
    /\ sys_manager = NoJob
    /\ cam = NoCam
    /\ work = NoWork
    /\ remote = NoView
    /\ ai = NoAi
    /\ settings = SettingsAside
    /\ PartsAtRest
    /\ \E rt \in {0} \cup ReconnectIntervals, st \in ClosedOrError :
          /\ cache = [ReportCache EXCEPT !.reconnect = (rt # 0)]
          /\ link = [NoLink EXCEPT !.rt = rt, !.state = st]

ConnNext ==
    \/ Initialize("offline")
    \/ ConnectOk
    \/ RemoteSend
    \/ \E f \in AckFrames : ReadMessage(f)
    \/ ConnectDemand
    \/ ReconnectTick
    \/ \E st \in {"OPERATIONAL"} \cup ClosedOrError : PrinterAnswers(st)
    \/ \E st \in ClosedOrError : PrinterDrops(st)
    \/ LinkTick

ConnSpec == ConnInit /\ [][ConnNext]_vars

\* C36: two calls of the printer's connect are never less than 60 s apart,
\* and connect is called only while the link is closed or in error.
C36_ConnectGate ==
    /\ link.gap # NoTime => link.gap >= 60
    /\ link.from \in {"none"} \cup ClosedOrError

---------------------------------------------------------------------------
(* Part XV: where the printer interface is called                          *)
(*                                                                         *)
(* The handlers run on the loop; run_in_executor hands a call to a worker. *)
(* work.on_loop is the call of the printer interface the loop is inside    *)
(* of, work.workers the calls the workers have not completed.  Any call of *)
(* the interface may take time to return.                                  *)
---------------------------------------------------------------------------

\* The demands whose handler hands one printer operation to a worker.
ControlDemands == {"pause", "resume", "cancel", "disconnect_printer"}

\* The printer operation of a demand.
operation(demand) ==
    CASE demand = "pause" -> "pause_print"
      [] demand = "resume" -> "resume_print"
      [] demand = "cancel" -> "cancel_print"
      [] demand = "disconnect_printer" -> "disconnect"
      [] OTHER -> "connect"

\* The loop is not inside a call: its coroutines and callbacks can run.
LoopFree == work.on_loop = "none"

\* A handler of the read loop, begun and ended in one step.
WorkRead(f, w) ==
    /\ LoopFree
    /\ pc = "reading"
    /\ inq > 0
    /\ inq' = inq - 1
    /\ LET s == process_message(Cur, f)
       IN /\ Commit(s)
          /\ pc' = IF s.raised THEN "crashed" ELSE "reading"
    /\ work' = w
    /\ UNCHANGED <<ws, ws_protocol, is_closing, close_pc, sock, attempt>>
    /\ UNCHANGED <<timerVars, metric, amb, xfer, host, remote, ai, link, cam, sys_manager, comm>>

\* _process_demand: pause, resume, cancel, disconnect_printer
ControlDemand(demand) ==
    WorkRead(DemandFrame(demand),
             [work EXCEPT !.workers = @ \cup {operation(demand)}])

\* _process_demand "connect_printer" calls self.printer.is_closed_or_error().
ConnectDemandBegins ==
    /\ LoopFree
    /\ pc = "reading"
    /\ inq > 0
    /\ inq' = inq - 1
    /\ work' = [work EXCEPT !.on_loop = "is_closed_or_error"]
    /\ UNCHANGED <<connected, ws, ws_protocol, is_set_up, is_closing,
                   reconnect_token, reconnect_delay, keepalive_hdl, pc, close_pc,
                   ka_scheduled, sock, attempt, last_send, hist, reportVars>>
    /\ UNCHANGED <<timerVars, metric, amb, xfer, host, remote, ai, link, cam, sys_manager, comm>>

\* The call returns, and the handler hands printer.connect to a worker if
\* the link is closed or in error.
ConnectDemandEnds(closed_or_error) ==
    /\ work.on_loop = "is_closed_or_error"
    /\ LET s == process_message(Cur, DemandFrame("connect_printer"))
       IN /\ Commit(s)
          /\ pc' = IF s.raised THEN "crashed" ELSE "reading"
    /\ work' = [work EXCEPT !.on_loop = "none",
                            !.workers = IF closed_or_error
                                        THEN @ \cup {operation("connect_printer")}
                                        ELSE @]
    /\ UNCHANGED <<ws, ws_protocol, is_closing, close_pc, sock, inq, attempt>>
    /\ UNCHANGED <<timerVars, metric, amb, xfer, host, remote, ai, link, cam, sys_manager, comm>>

\* The temperature timer fires: _handle_temperature_update calls
\* self.printer.is_operational() and self.printer.get_current_temperatures().
TemperatureBegins ==
    /\ LoopFree
    /\ LoopAlive
    /\ pc # "init"
    /\ cache.is_connected
    /\ work' = [work EXCEPT !.on_loop = "get_current_temperatures"]
    /\ UNCHANGED <<sessVars, timerVars, metric, amb, xfer, host, remote, ai, link, cam, sys_manager, comm>>

\* The call returns: the handler caches and sends what changed.
TemperatureEnds(changed) ==
    /\ work.on_loop = "get_current_temperatures"
    /\ Commit(IF changed THEN Sampled(Cur, "temps") ELSE Cur)
    /\ work' = [work EXCEPT !.on_loop = "none"]
    /\ UNCHANGED <<ws, ws_protocol, is_closing, pc, close_pc, sock, inq, attempt>>
    /\ UNCHANGED <<timerVars, metric, amb, xfer, host, remote, ai, link, cam, sys_manager, comm>>

\* A worker completes its call.
WorkerDone(op) ==
    /\ op \in work.workers
    /\ work' = [work EXCEPT !.workers = @ \ {op}]
    /\ UNCHANGED <<sessVars, timerVars, metric, amb, xfer, host, remote, ai, link, cam, sys_manager, comm>>

WorkNext ==
    \/ \E st \in PrinterAtStart : LoopFree /\ Initialize(st)
    \/ LoopFree /\ ConnectOk
    \/ RemoteSend
    \/ \E f \in AckFrames : WorkRead(f, work)
    \/ \E demand \in ControlDemands : ControlDemand(demand)
    \/ ConnectDemandBegins
    \/ \E closed_or_error \in BOOLEAN : ConnectDemandEnds(closed_or_error)
    \/ TemperatureBegins
    \/ \E changed \in BOOLEAN : TemperatureEnds(changed)
    \/ \E op \in work.workers : WorkerDone(op)

WorkSpec == ReportInit /\ [][WorkNext]_vars

\* C37: no call of the printer interface runs on the loop: whenever a frame
\* has arrived, or an earlier demand's operation is still with a worker,
\* the loop is free to read and to fire its timers.
C37_OffLoop == inq > 0 \/ work.workers # {} => LoopFree

---------------------------------------------------------------------------
(* Part XVI: WebcamStream                                                   *)
(* start puts a _stream coroutine on the loop, stop clears `running`; the   *)
(* coroutine tests `running` only at the head of its while loop, between    *)
(* a sleep and the next fetch.                                              *)

\* The intervals a stream_on demand asks for, in milliseconds.
StreamIntervals == {1000, 2000}

\* self._loop.add_callback(self._stream) on the tornado IOLoop: the call
\* returns None; this is what start stores in stream_task.
add_callback_returns == "None"

FreeLoops(c) == {i \in 1..MaxLoops : c.loops[i].at = "none"}

\* WebcamStream.start (the snapshot url is an http url)
cam_start(c, interval) ==
    IF c.running THEN c
    ELSE LET i == CHOOSE k \in FreeLoops(c) : \A j \in FreeLoops(c) : k <= j
         IN [c EXCEPT !.interval = interval,
                      !.running = TRUE,
                      !.pushers = {},
                      !.loops[i] = [at |-> "queued", slept |-> NoTime]]

\* WebcamStream.stop: stream_task is None, no task is cancelled.
cam_stop(c) ==
    IF ~c.running THEN c
    ELSE IF add_callback_returns = "None"
         THEN [c EXCEPT !.running = FALSE]
         ELSE [c EXCEPT !.running = FALSE,
                        !.loops = [i \in 1..MaxLoops |-> NoLoop]]

\* A handler of the read loop that calls the stream.
CamRead(f, c) ==
    /\ pc = "reading"
    /\ inq > 0
    /\ inq' = inq - 1
    /\ LET s == process_message(Cur, f)
       IN /\ Commit(s)
          /\ pc' = IF s.raised THEN "crashed" ELSE "reading"
    /\ cam' = c
    /\ UNCHANGED <<ws, ws_protocol, is_closing, close_pc, sock, attempt>>
    /\ UNCHANGED <<timerVars, metric, amb, xfer, host, remote, ai, link, work, sys_manager, comm>>

\* _process_demand "stream_on": interval = args.get("interval", 1000) / 1000
StreamOn(ms) ==
    /\ ~cam.running => FreeLoops(cam) # {}
    /\ CamRead([DemandFrame("stream_on") EXCEPT !.args = "ok"],
               [cam_start(cam, ms \div 1000) EXCEPT !.asked = ms \div 1000])

\* _process_demand "stream_off"
StreamOff ==
    CamRead(DemandFrame("stream_off"), cam_stop(cam))

\* Events.DISCONNECTED -> _on_printer_disconnected -> webcam_stream.stop()
CamPrinterDisconnected ==
    /\ cache.is_connected
    /\ LoopAlive
    /\ pc # "init"
    /\ Commit(on_printer_disconnected(Cur))
    /\ cam' = cam_stop(cam)
    /\ UNCHANGED <<ws, ws_protocol, is_closing, pc, close_pc, sock, inq, attempt>>
    /\ UNCHANGED <<timerVars, metric, amb, xfer, host, remote, ai, link, work, sys_manager, comm>>

\* _stream at `while self.running:`, when the coroutine is first run or its
\* sleep is over: the fetch is handed to the executor, or the coroutine ends.
StreamTests(i) ==
    /\ cam.loops[i].at \in {"queued", "sleeping"}
    /\ cam' = [cam EXCEPT !.loops[i] =
                    IF cam.running THEN [@ EXCEPT !.at = "fetching"] ELSE NoLoop]
    /\ UNCHANGED <<sessVars, timerVars, metric, amb, xfer, host, remote, ai, link, work, sys_manager, comm>>

\* _stream after `await run_in_executor(None, self.extract_image)`: the
\* image, if there is one, goes to _send_image, and the coroutine sleeps
\* self.interval.
StreamFetched(i, got) ==
    /\ cam.loops[i].at = "fetching"
    /\ LoopAlive
    /\ LET s == IF got THEN send_sp(Cur, "stream") ELSE Cur
           pushed == Wrote(s, {"stream"})
       IN /\ Commit(s)
          /\ cam' = [cam EXCEPT
                !.loops[i] = [at |-> "sleeping", slept |-> cam.interval],
                !.pushers = IF pushed THEN @ \cup {i} ELSE @,
                !.stray = @ \/ (pushed /\ ~cam.running)]
    /\ UNCHANGED <<ws, ws_protocol, is_closing, pc, close_pc, sock, inq, attempt>>
    /\ UNCHANGED <<timerVars, metric, amb, xfer, host, remote, ai, link, work, sys_manager, comm>>

CamNext ==
    \/ \E st \in PrinterAtStart : Initialize(st)
    \/ ConnectOk
    \/ RemoteSend
    \/ \E f \in AckFrames : CamRead(f, cam)
    \/ \E ms \in StreamIntervals : StreamOn(ms)
    \/ StreamOff
    \/ CamPrinterDisconnected
    \/ \E i \in 1..MaxLoops : StreamTests(i)
    \/ \E i \in 1..MaxLoops, got \in BOOLEAN : StreamFetched(i, got)

CamSpec == ReportInit /\ [][CamNext]_vars

\* C38: the images of a stream come from one _stream loop, the stream runs at
\* the interval of the latest stream_on, and no image is sent while the
\* stream is stopped.
C38_SingleStream ==
    /\ Cardinality(cam.pushers) <= 1
    /\ cam.running => cam.interval = cam.asked
    /\ ~cam.stray

---------------------------------------------------------------------------
(* Part XVII: SystemManager, plugin_install and plugin_uninstall           *)
(* The demand hands install_plugin / uninstall_plugin to the executor with  *)
(* the payload of the demand; the done-callback of the future restarts the  *)
(* host if the result is true.                                              *)

MaxJobs == 2        \* plugin jobs of one run

\* _call_pip: no pip caller is available, execute raises, or it returns
\* (code, stdout, stderr) with code zero or not.
PipOutcomes == {"unavailable", "raises", "zero", "nonzero"}

\* The payload of a plugin demand once "demand" is popped from it: the keys
\* of the mapping, in order.
PluginPayloads ==
    {<<>>, <<"plugins">>, <<"name", "pip_name">>,
     <<"name", "install_url", "key">>}

Keys(args) == {args[i] : i \in 1..Len(args)}

\* `for plugin_data in plugins` over a mapping yields its keys.
Elements(args) == [i \in 1..Len(args) |-> [is_map |-> FALSE, key |-> args[i]]]

\* The body of the for loop of install_plugin for one element; code is the
\* local of that name, "unbound" before the first pip call has returned.
install_one(st, plugin_data, pip) ==
    IF ~plugin_data.is_map
    THEN [st EXCEPT !.ret = "raised"]       \* plugin_data['name'] of a str
    ELSE LET called == [st EXCEPT !.calls = @ + 1]
             got == IF pip \in {"unavailable", "raises"}
                    THEN [called EXCEPT !.install_error = TRUE]
                    ELSE [called EXCEPT !.code = pip,
                                        !.zero = @ + (IF pip = "zero" THEN 1 ELSE 0)]
         IN IF got.code = "unbound"
            THEN [got EXCEPT !.ret = "raised"]   \* `if code != 0`: unbound local
            ELSE IF got.code # "zero"
                 THEN [got EXCEPT !.install_error = TRUE]
                 ELSE got

RECURSIVE install_each(_, _, _)
install_each(st, plugins, pip) ==
    IF st.ret = "raised" THEN st
    ELSE IF plugins = <<>>
         THEN [st EXCEPT !.ret = IF st.install_error THEN "False" ELSE "True"]
         ELSE install_each(install_one(st, Head(plugins), pip), Tail(plugins), pip)

\* SystemManager.install_plugin(plugins)
install_plugin(plugins, pip) ==
    install_each([ret |-> "none", install_error |-> FALSE, code |-> "unbound",
                  calls |-> 0, zero |-> 0], plugins, pip)

\* SystemManager.uninstall_plugin(plugin_data)
uninstall_plugin(args, pip) ==
    IF ~({"name", "pip_name"} \subseteq Keys(args))
    THEN [ret |-> "raised", calls |-> 0, zero |-> 0]     \* KeyError
    ELSE IF pip \in {"unavailable", "raises"}
         THEN [ret |-> "False", calls |-> 1, zero |-> 0]
         ELSE IF pip # "zero"
              THEN [ret |-> "False", calls |-> 1, zero |-> 0]
              ELSE [ret |-> "True", calls |-> 1, zero |-> 1]

\* _process_demand "plugin_install" / "plugin_uninstall":
\* run_in_executor(None, self.sys_manager.<job>, args)
PluginDemand(job, args) ==
    /\ sys_manager.job = "none"
    /\ sys_manager.jobs < MaxJobs
    /\ pc = "reading"
    /\ inq > 0
    /\ inq' = inq - 1
    /\ LET s == process_message(Cur, DemandFrame(job))
       IN /\ Commit(s)
          /\ pc' = IF s.raised THEN "crashed" ELSE "reading"
    /\ sys_manager' = [sys_manager EXCEPT !.job = job, !.args = args,
                                          !.jobs = @ + 1]
    /\ UNCHANGED <<ws, ws_protocol, is_closing, close_pc, sock, attempt>>
    /\ UNCHANGED <<timerVars, metric, amb, xfer, host, remote, ai, link, work, cam, comm>>

\* The executor runs the job to its end.
PluginJobRuns(pip) ==
    /\ sys_manager.job # "none"
    /\ sys_manager.result = "none"
    /\ LET r == IF sys_manager.job = "plugin_install"
                THEN install_plugin(Elements(sys_manager.args), pip)
                ELSE uninstall_plugin(sys_manager.args, pip)
       IN sys_manager' = [sys_manager EXCEPT !.result = r.ret, !.calls = r.calls,
                                             !.zero = r.zero]
    /\ UNCHANGED <<sessVars, timerVars, metric, amb, xfer, host, remote, ai, link, work, cam, comm>>

\* _on_install_finished / _on_uninstall_finished: `if future.result():`
\* restart_octoprint is handed to the executor; result() raises what the job
\* raised.
PluginJobFinished ==
    /\ sys_manager.result # "none"
    /\ sys_manager' =
            [NoJob EXCEPT !.jobs = sys_manager.jobs,
                          !.last = [job |-> sys_manager.job,
                                    result |-> sys_manager.result,
                                    calls |-> sys_manager.calls,
                                    zero |-> sys_manager.zero,
                                    restarts |-> IF sys_manager.result = "True"
                                                 THEN 1 ELSE 0]]
    /\ UNCHANGED <<sessVars, timerVars, metric, amb, xfer, host, remote, ai, link, work, cam, comm>>

PluginJobs == {"plugin_install", "plugin_uninstall"}

SysNext ==
    \/ \E st \in PrinterAtStart : Initialize(st)
    \/ ConnectOk
    \/ RemoteSend
    \/ \E f \in AckFrames : ReadMessage(f)
    \/ \E job \in PluginJobs, args \in PluginPayloads : PluginDemand(job, args)
    \/ \E pip \in PipOutcomes : PluginJobRuns(pip)
    \/ PluginJobFinished

SysSpec == ReportInit /\ [][SysNext]_vars

\* The pip operation of the job that ended last succeeded: pip was called,
\* and every call returned the exit code 0.
PipSucceeded ==
    /\ sys_manager.last.calls > 0
    /\ sys_manager.last.zero = sys_manager.last.calls

\* C39: the done-callback of a plugin job restarts the host once if the pip
\* operation of the job succeeded, and not at all otherwise.
C39_RestartOnlyOnSuccess ==
    sys_manager.last.job # "none" =>
        sys_manager.last.restarts = IF PipSucceeded THEN 1 ELSE 0

---------------------------------------------------------------------------
(* Part XVIII: SimplyPrintComm.main_loop                                    *)
(* One pass of the polling loop: the request, the count of the failed       *)
(* requests, and the sleep before the next pass. Times are in milliseconds; *)
(* 60 / times_per_minute is rounded down to one.                            *)

MaxRequestsFailed == 501    \* the count stops here

\* What the remote sets times_per_minute to.
TimesPerMinute == {45, 6, 1}

\* How long the request of a pass took, in milliseconds.
RequestTimes == {0, 500, 2000}

\* request(): a good response, False (no answer), None (no JSON, or the
\* printer is set up no more), or an exception.
RequestOutcomes == {"True", "False", "None", "raises"}

\* main_loop: sleeptime, in seconds; before it, a faulty variant: the second
\* tier begins with the fiftieth failure.
sleeptime_from_fifty(requests_failed) ==
    IF requests_failed >= 500 THEN 120
    ELSE IF requests_failed >= 200 THEN 30
    ELSE IF requests_failed >= 100 THEN 20
    ELSE IF requests_failed >= 50 THEN 10
    ELSE 5

sleeptime(requests_failed) ==
    IF requests_failed >= 500 THEN 120
    ELSE IF requests_failed >= 200 THEN 30
    ELSE IF requests_failed >= 100 THEN 20
    ELSE IF requests_failed > 50 THEN 10
    ELSE 5

\* `if 60 / sleeptime <= self.times_per_minute`
tier_applies(c) ==
    /\ c.requests_failed >= 3
    /\ 60 <= c.times_per_minute * sleeptime(c.requests_failed)

\* The end of a pass: the sleep of the performance monitoring.
pace(c, request_time) ==
    IF request_time * c.times_per_minute >= 60000 THEN 0
    ELSE (60000 \div c.times_per_minute) - request_time

\* One pass of `while self.run_loop`, from the outcome of request().
main_loop_pass(c, outcome, request_time, tpm) ==
    LET seen == [c EXCEPT !.request_time = request_time]
    IN CASE outcome = "True" ->
              LET c1 == [seen EXCEPT !.requests_failed = 0,
                                     !.times_per_minute = tpm]
              IN [c1 EXCEPT !.last = "ok", !.tiered = FALSE, !.before = NoTime,
                            !.delay = pace(c1, request_time)]
         [] outcome \in {"False", "None"} ->
              LET c1 == [seen EXCEPT !.requests_failed = @ + 1,
                                     !.before = IF c.requests_failed = 0
                                                THEN NoTime ELSE c.delay]
              IN IF tier_applies(c1)
                 THEN [c1 EXCEPT !.last = "failed", !.tiered = TRUE,
                                 !.delay = 1000 * sleeptime(c1.requests_failed)]
                 ELSE [c1 EXCEPT !.last = "failed", !.tiered = FALSE,
                                 !.delay = pace(c1, request_time)]
         [] OTHER ->        \* except Exception: logged; the count is kept
              [c EXCEPT !.last = "raised"]

MainLoopPass(outcome, request_time, tpm) ==
    /\ outcome \in {"False", "None"} => comm.requests_failed < MaxRequestsFailed
    /\ outcome # "True" => tpm = comm.times_per_minute
    /\ comm' = main_loop_pass(comm, outcome, request_time, tpm)
    /\ UNCHANGED <<sessVars, timerVars, metric, amb, xfer, host, remote, ai, link, work, cam, sys_manager>>

PollNext ==
    \E outcome \in RequestOutcomes, request_time \in RequestTimes,
       tpm \in TimesPerMinute : MainLoopPass(outcome, request_time, tpm)

PollSpec == ReportInit /\ [][PollNext]_vars

\* The tiers of the delay, in milliseconds.
TierDelays == {5000, 10000, 20000, 30000, 120000}

TierOf(n) ==
    CASE n \in 3..50 -> 5
      [] n \in 51..99 -> 10
      [] n \in 100..199 -> 20
      [] n \in 200..499 -> 30
      [] OTHER -> 120

\* The polling period, 60 / times_per_minute, in milliseconds.
Period == 60000 \div comm.times_per_minute

====
